---------------------------- MODULE Spec2Model ----------------------------
(***************************************************************************)
(* A model of the XML parser of Src/OSF/LIBXML/parser.c: the push driver   *)
(* (xmlParseChunk, xmlParseTryOrFinish) and the blocking driver            *)
(* (xmlParseDocument), with the sub-parsers they call, the error routines, *)
(* the name, space and namespace stacks, and the SAX2 callbacks seen by a  *)
(* recording consumer.                                                     *)
(*                                                                         *)
(* The parser context is one record, ctxt.  Every C function that changes  *)
(* the context is an operator from a context to a context; a C return      *)
(* value is left in the scratch field rv.  The input buffer is the         *)
(* sequence buf of one-character strings, cur is the 1-based index of the  *)
(* byte at the read position, and reading past the end of the buffer       *)
(* yields NUL, as the terminating zero of the C buffer does.               *)
(*                                                                         *)
(* Input domain of Spec: 7-bit ASCII documents (printable characters, TAB, *)
(* LF) without XML declaration, a single input frame (inputNr = 1), SAX2   *)
(* callbacks (sax2 = 1), default options, and a consumer that keeps blanks *)
(* (ignorableWhitespace == characters).  A branch of the code outside this *)
(* domain sets the field unmodelled, and InDomain states that no run       *)
(* reaches one.  The other specifications apply single functions, set      *)
(* options, stack input frames, read through a callback, scan an internal  *)
(* subset, nest elements deeply, discard consumed input and merge          *)
(* defaulted attributes.                                                   *)
(***************************************************************************)
EXTENDS Integers, Sequences, FiniteSets, TLC

VARIABLES doc, driver, fed, ctxt, ret, op, finals

vars == <<doc, driver, fed, ctxt, ret, op, finals>>

-----------------------------------------------------------------------------
(* Characters *)

NUL == "NUL"
NULL == <<"NULL">>

Letters == {"a", "b", "c", "d", "e", "f", "g", "h", "i", "j", "k", "l", "m", "n", "o", "p", "q", "r", "s", "t", "u", "v", "w", "x", "y", "z",
            "A", "B", "C", "D", "E", "F", "G", "H", "I", "J", "K", "L", "M", "N", "O", "P", "Q", "R", "S", "T", "U", "V", "W", "X", "Y", "Z"}

Digits == {"0", "1", "2", "3", "4", "5", "6", "7", "8", "9"}

IS_BLANK_CH(c) == c \in {" ", "\t", "\n", "\r"}

\* IS_CHAR / IS_BYTE_CHAR on the 7-bit input domain: 0x9, 0xA, 0xD or >= 0x20
IS_BYTE_CHAR(c) == c # NUL

IS_CHAR(c) == c # NUL

\* (*in >= 0x20) && (*in <= 0x7f)
IsPrintable(c) == c \notin {NUL, "\t", "\n", "\r"}

\* *in > 0 && *in < 0x80
IsAscii(c) == c # NUL

IsLetter(c) == c \in Letters

IsDigit(c) == c \in Digits

xmlIsNameStartChar(c) == IsLetter(c) \/ c = "_" \/ c = ":"

xmlIsNameChar(c) == IsLetter(c) \/ IsDigit(c) \/ c \in {"_", ":", "-", "."}

Min(S) == CHOOSE x \in S : \A y \in S : x <= y

Max(S) == CHOOSE x \in S : \A y \in S : x >= y

\* With([x \in {v} |-> e]) is e where x stands for the value v: a result
\* that is used more than once is bound this way, and computed once
With(f) == f[CHOOSE x \in DOMAIN f : TRUE]

-----------------------------------------------------------------------------
(* Program constants *)

XML_PARSER_BIG_BUFFER_SIZE == 300
XML_PARSER_BUFFER_SIZE == 100
XML_PARSER_BIG_ENTITY == 1000
XML_PARSER_NON_LINEAR == 10
xmlParserMaxDepth == 256
ShrinkThreshold == 4096
INPUT_CHUNK == 250
XML_MAX_LOOKUP_LIMIT == 10000000
LINE_LEN == 80

XML_XML_NAMESPACE == <<"h", "t", "t", "p", ":", "/", "/", "w", "w", "w", ".", "w", "3",
    ".", "o", "r", "g", "/", "X", "M", "L", "/", "1", "9", "9", "8", "/", "n", "a", "m",
    "e", "s", "p", "a", "c", "e">>
XMLNS_NAMESPACE == <<"h", "t", "t", "p", ":", "/", "/", "w", "w", "w", ".", "w", "3", ".",
    "o", "r", "g", "/", "2", "0", "0", "0", "/", "x", "m", "l", "n", "s", "/">>
str_xml == <<"x", "m", "l">>
str_xmlns == <<"x", "m", "l", "n", "s">>

-----------------------------------------------------------------------------
(* The entities of the consumer.  The parser asks the consumer for the     *)
(* entity a reference names (the getEntity callback); the consumer answers *)
(* from a table of internal general entities, as the declarations          *)
(*   <!ENTITY name "content">                                              *)
(* of a document type would have filled it.                                *)

\* "&name;"
Ref(name) == <<"&">> \o name \o <<";">>

\* s repeated n times
RECURSIVE Repeat(_, _)
Repeat(s, n) == IF n = 0 THEN <<>> ELSE s \o Repeat(s, n - 1)

\* the entities E, Ex, Exx, ...: the first is a character, each of the
\* others holds Fanout references to the one before it
Levels == 3
Fanout == 10

LaughName(k) == <<"E">> \o Repeat(<<"x">>, k)

\* L refers to itself, M and N to each other; B holds an element and A a
\* reference to B
Entities ==
    [n \in {LaughName(k) : k \in 0..Levels}
            \cup {<<"L">>, <<"M">>, <<"N">>, <<"A">>, <<"B">>} |->
        CASE n = <<"L">> -> Ref(<<"L">>)
          [] n = <<"M">> -> Ref(<<"N">>)
          [] n = <<"N">> -> Ref(<<"M">>)
          [] n = <<"A">> -> Ref(<<"B">>)
          [] n = <<"B">> -> <<"<", "b", "/", ">">>
          [] n = <<"E">> -> <<"X">>
          [] OTHER -> Repeat(Ref(SubSeq(n, 1, Len(n) - 1)), Fanout)]

-----------------------------------------------------------------------------
(* The parser context after xmlNewParserCtxt, with the options of the run *)

NewParserCtxt(recovery, stopAt) ==
    [buf |-> <<>>, cur |-> 1, instate |-> "XML_PARSER_START", eofLeft |-> FALSE,
     errNo |-> "XML_ERR_OK", disableSAX |-> 0, wellFormed |-> 1, nsWellFormed |-> 1,
     valid |-> 1, recovery |-> recovery, errs |-> <<>>, events |-> <<>>,
     stopAt |-> stopAt, stopped |-> FALSE,
     nsTab |-> <<>>, nameTab |-> <<>>, pushTab |-> <<>>, spaceTab |-> <<-1>>,
     nodeNr |-> 0, nbentities |-> 0, depth |-> 0, lastError |-> "XML_ERR_OK",
     checked |-> [n \in DOMAIN Entities |-> 0], attsSpecial |-> {},
     nested |-> FALSE, stopReq |-> FALSE,
     charset |-> "XML_CHAR_ENCODING_UTF8", standalone |-> -1,
     hasExternalSubset |-> 0, hasPErefs |-> 0, inSubset |-> 0,
     replaceEntities |-> 0, pedantic |-> 0,
     intSubName |-> NULL, extSubSystem |-> NULL, extSubURI |-> NULL,
     progressive |-> "0", checkIndex |-> 0, lastlt |-> 0, lastgt |-> 0, again |-> FALSE,
     rv |-> NULL, rprefix |-> NULL, rvalue |-> NULL, ralloc |-> 0, rptr |-> 0,
     rURI |-> NULL,
     rtlen |-> 0, unmodelled |-> FALSE,
     tstate |-> "XML_PARSER_START", moves |-> {}, memoSkipped |-> FALSE,
     tagLog |-> {}, options |-> {}, deepest |-> 0, refused |-> FALSE,
     turnAt |-> 0, stalled |-> FALSE, repeated |-> FALSE, begun |-> {},
     memoKept |-> FALSE, memoDropped |-> FALSE,
     attsDefault |-> <<>>, nsDefaulted |-> {}]

\* ctxt->options & XML_PARSE_HUGE
Huge(c) == "XML_PARSE_HUGE" \in c.options

-----------------------------------------------------------------------------
(* Reading the input: RAW, CUR, NXT, CUR_PTR, avail *)

At(c, i) == IF i >= 1 /\ i <= Len(c.buf) THEN c.buf[i] ELSE NUL

RAW(c) == At(c, c.cur)

NXT(c, n) == At(c, c.cur + n)

Avail(c) == Len(c.buf) - (c.cur - 1)

\* the bytes buf[i .. j-1]
Slice(c, i, j) == SubSeq(c.buf, i, j - 1)

\* does the buffer hold the literal s at index i
Lit(c, i, s) == \A k \in 1..Len(s) : At(c, i + k - 1) = s[k]

-----------------------------------------------------------------------------
(* State changes: SetState records in the ghost field eofLeft that the    *)
(* state was moved away from XML_PARSER_EOF.                               *)

\* the states that the switch of xmlParseTryOrFinish dispatches on and that
\* the drivers assign; the other states (XML_PARSER_COMMENT, XML_PARSER_PI,
\* XML_PARSER_ATTRIBUTE_VALUE, XML_PARSER_SYSTEM_LITERAL) are held only while
\* a sub-parser runs
DriverStates ==
    {"XML_PARSER_START", "XML_PARSER_MISC", "XML_PARSER_DTD", "XML_PARSER_PROLOG",
     "XML_PARSER_START_TAG", "XML_PARSER_CONTENT", "XML_PARSER_CDATA_SECTION",
     "XML_PARSER_END_TAG", "XML_PARSER_EPILOG", "XML_PARSER_EOF"}

\* ctxt->instate = s.  Two fields record the history of the assignments:
\* tstate is the last driver state assigned, and moves holds every change
\* <<from, to>> from one driver state to another
SetState(c, s) ==
    [c EXCEPT !.instate = s,
              !.eofLeft = c.eofLeft \/ (c.instate = "XML_PARSER_EOF" /\ s # "XML_PARSER_EOF"),
              !.tstate = IF s \in DriverStates THEN s ELSE @,
              !.moves = IF s \in DriverStates /\ s # c.tstate
                        THEN @ \cup {<<c.tstate, s>>} ELSE @]

xmlStopParser(c) ==
    [SetState(c, "XML_PARSER_EOF") EXCEPT
              !.errNo = "XML_ERR_USER_STOP",
              !.disableSAX = 1,
              !.buf = <<>>,
              !.cur = 1,
              !.stopped = TRUE]

\* a SAX callback: the consumer records the event and, on its stopAt-th
\* event, asks the parser to stop from inside the callback.  The consumer
\* holds the context of the document: when the callback comes from the
\* context of an entity, the request is kept in stopReq until that context
\* returns
Deliver(c, ev) ==
    LET c1 == [c EXCEPT !.events = Append(c.events, ev)]
    IN  IF Len(c1.events) # c.stopAt THEN c1
        ELSE IF c.nested THEN [c1 EXCEPT !.stopReq = TRUE]
        ELSE xmlStopParser(c1)

-----------------------------------------------------------------------------
(* Error routines *)

Silenced(c) == c.disableSAX = 1 /\ c.instate = "XML_PARSER_EOF"

\* at is the number of events delivered before the error was raised; the
\* error becomes the last error of the context
Raise(c, code, level) ==
    [c EXCEPT !.lastError = code,
              !.errs = Append(c.errs, [code |-> code, level |-> level, at |-> Len(c.events)])]

xmlFatalErr(c, error) ==
    IF Silenced(c) THEN c
    ELSE LET c1 == Raise([c EXCEPT !.errNo = error], error, "XML_ERR_FATAL")
         IN  [c1 EXCEPT !.wellFormed = 0,
                        !.disableSAX = IF c.recovery = 0 THEN 1 ELSE c.disableSAX]

xmlFatalErrMsg(c, error) == xmlFatalErr(c, error)

xmlFatalErrMsgInt(c, error) == xmlFatalErr(c, error)

xmlFatalErrMsgStr(c, error) == xmlFatalErr(c, error)

\* a name mismatch that ends the parse: events are disabled and the state
\* becomes XML_PARSER_EOF
xmlFatalErrMsgStrIntStr_halt(c, error) ==
    [SetState(xmlFatalErr(c, error), "XML_PARSER_EOF") EXCEPT !.disableSAX = 1]

xmlFatalErrMsgStrIntStr(c, error) == xmlFatalErr(c, error)

xmlErrAttributeDup(c) ==
    IF Silenced(c) THEN c
    ELSE LET c1 == Raise([c EXCEPT !.errNo = "XML_ERR_ATTRIBUTE_REDEFINED"],
                         "XML_ERR_ATTRIBUTE_REDEFINED", "XML_ERR_FATAL")
         IN  [c1 EXCEPT !.wellFormed = 0,
                        !.disableSAX = IF c.recovery = 0 THEN 1 ELSE c.disableSAX]

xmlErrMsgStr(c, error) ==
    IF Silenced(c) THEN c
    ELSE Raise([c EXCEPT !.errNo = error], error, "XML_ERR_ERROR")

xmlWarningMsg(c, error) ==
    IF Silenced(c) THEN c
    ELSE Raise(c, error, "XML_ERR_WARNING")

\* a namespace error that is recorded without touching nsWellFormed
xmlNsErr_unflagged(c, error) ==
    IF Silenced(c) THEN c
    ELSE Raise([c EXCEPT !.errNo = error], error, "XML_ERR_ERROR")

\* a namespace error that is raised as a fatal error
xmlNsErr_fatal(c, error) == xmlFatalErr(c, error)

xmlNsErr(c, error) ==
    IF Silenced(c) THEN c
    ELSE LET c1 == Raise([c EXCEPT !.errNo = error], error, "XML_ERR_ERROR")
         IN  [c1 EXCEPT !.nsWellFormed = 0]

xmlNsWarn(c, error) ==
    IF Silenced(c) THEN c
    ELSE Raise(c, error, "XML_ERR_WARNING")

-----------------------------------------------------------------------------
(* The name, space and namespace stacks *)

Drop(s, n) == SubSeq(s, 1, Len(s) - n)

\* the binding is left out (-2) when XML_PARSE_NSCLEAN is set and the
\* innermost binding of prefix is URL already
nsPush(c, prefix, URL) ==
    LET hits == {i \in 1..Len(c.nsTab) : i % 2 = 1 /\ c.nsTab[i] = prefix}
    IN  IF "XML_PARSE_NSCLEAN" \in c.options /\ hits # {}
           /\ c.nsTab[(CHOOSE i \in hits : \A k \in hits : k <= i) + 1] = URL
        THEN [c EXCEPT !.rv = -2]
        ELSE [c EXCEPT !.nsTab = c.nsTab \o <<prefix, URL>>, !.rv = Len(c.nsTab) + 2]

nsPop(c, nr) ==
    LET n == IF Len(c.nsTab) < nr THEN Len(c.nsTab) ELSE nr
    IN  IF Len(c.nsTab) <= 0 THEN c ELSE [c EXCEPT !.nsTab = Drop(c.nsTab, n)]

\* the recording consumer builds no tree: the node stack holds nothing but
\* the pseudoroot of an entity's context
nodePop(c) == IF c.nodeNr > 0 THEN [c EXCEPT !.nodeNr = @ - 1] ELSE c

nameNsPush(c, value, prefix, URI, nsNr) ==
    [c EXCEPT !.nameTab = Append(c.nameTab, value),
              !.pushTab = Append(SubSeq(c.pushTab, 1, Len(c.nameTab)),
                                 [prefix |-> prefix, URI |-> URI, nsNr |-> nsNr])]

nameNsPop(c) ==
    IF Len(c.nameTab) > 0 THEN [c EXCEPT !.nameTab = Drop(c.nameTab, 1)] ELSE c

namePush(c, value) == [c EXCEPT !.nameTab = Append(c.nameTab, value)]

namePop(c) ==
    IF Len(c.nameTab) > 0 THEN [c EXCEPT !.nameTab = Drop(c.nameTab, 1)] ELSE c

\* a push that leaves the preserve-whitespace stack as it is
spacePush_none(c, val) == c

spacePush(c, val) == [c EXCEPT !.spaceTab = Append(c.spaceTab, val)]

spacePop(c) ==
    IF Len(c.spaceTab) > 0 THEN [c EXCEPT !.spaceTab = Drop(c.spaceTab, 1)] ELSE c

\* *ctxt->space; after the last pop the pointer stays on spaceTab[0]
SpaceTop(c) == IF Len(c.spaceTab) > 0 THEN c.spaceTab[Len(c.spaceTab)] ELSE -1

-----------------------------------------------------------------------------
(* Moving the read position *)

\* first index j >= i whose byte does not satisfy P
ScanWhile(c, i, P(_)) == Min({j \in i..(Len(c.buf) + 1) : ~P(At(c, j))})

SKIP(c, n) == [c EXCEPT !.cur = c.cur + n]

SKIPL(c, n) == [c EXCEPT !.cur = c.cur + n]

NEXTL(c) == [c EXCEPT !.cur = c.cur + 1]

NEXT1(c) == [c EXCEPT !.cur = c.cur + 1]

\* xmlNextChar: no move at the end of the input
NEXT(c) == IF RAW(c) = NUL THEN c ELSE [c EXCEPT !.cur = c.cur + 1]

CUR_CHAR(c) == RAW(c)

xmlSkipBlankChars(c) == [c EXCEPT !.cur = ScanWhile(c, c.cur, IS_BLANK_CH)]

SKIP_BLANKS(c) == xmlSkipBlankChars(c)

-----------------------------------------------------------------------------
(* Names *)

IsNameFastStart(ch) == IsLetter(ch) \/ ch = "_" \/ ch = ":"

IsNameFast_nodot(ch) == IsLetter(ch) \/ IsDigit(ch) \/ ch \in {"_", "-", ":"}

IsNameFast(ch) == IsLetter(ch) \/ IsDigit(ch) \/ ch \in {"_", "-", ":", "."}

IsNameComplex(ch) == ch \notin {" ", ">", "/"} /\ xmlIsNameChar(ch)

IsNCNameFastStart(ch) == IsLetter(ch) \/ ch = "_"

IsNCNameFast(ch) == IsLetter(ch) \/ IsDigit(ch) \/ ch \in {"_", "-", "."}

IsNCNameComplex(ch) == ch \notin {" ", ">", "/"} /\ xmlIsNameChar(ch) /\ ch # ":"

xmlParseNameComplex(c) ==
    LET ch == CUR_CHAR(c)
        end == ScanWhile(c, c.cur + 1, IsNameComplex)
    IN  IF c.instate = "XML_PARSER_EOF" THEN [c EXCEPT !.rv = NULL]
        ELSE IF ch \in {" ", ">", "/"} \/ ~xmlIsNameStartChar(ch) THEN [c EXCEPT !.rv = NULL]
        ELSE [c EXCEPT !.cur = end, !.rv = Slice(c, c.cur, end)]

xmlParseName(c) ==
    LET in == ScanWhile(c, c.cur + 1, IsNameFast)
    IN  IF IsNameFastStart(RAW(c)) /\ IsAscii(At(c, in))
        THEN [c EXCEPT !.cur = in, !.rv = Slice(c, c.cur, in)]
        ELSE xmlParseNameComplex(c)

xmlParseNCNameComplex(c) ==
    LET ch == CUR_CHAR(c)
        end == ScanWhile(c, c.cur, IsNCNameComplex)
    IN  IF ch \in {" ", ">", "/"} \/ ~xmlIsNameStartChar(ch) \/ ch = ":"
        THEN [c EXCEPT !.rv = NULL]
        ELSE [c EXCEPT !.cur = end, !.rv = Slice(c, c.cur, end)]

xmlParseNCName(c) ==
    LET in == ScanWhile(c, c.cur + 1, IsNCNameFast)
    IN  IF IsNCNameFastStart(RAW(c)) /\ IsAscii(At(c, in))
        THEN [c EXCEPT !.cur = in, !.rv = Slice(c, c.cur, in)]
        ELSE xmlParseNCNameComplex(c)

\* rv = <<"1">> stands for the C return value (xmlChar *)1
MATCHED == <<"1">>

\* length of the common prefix of the input at cur and the name other
CommonLen(c, other) ==
    Min({k \in 0..Len(other) : k = Len(other) \/ At(c, c.cur + k) # other[k + 1]})

xmlParseNameAndCompare(c, other) ==
    LET k == CommonLen(c, other)
        in == c.cur + k
    IN  IF c.instate = "XML_PARSER_EOF" THEN [c EXCEPT !.rv = NULL]
        ELSE IF k = Len(other) /\ (At(c, in) = ">" \/ IS_BLANK_CH(At(c, in)))
        THEN [c EXCEPT !.cur = in, !.rv = MATCHED]
        ELSE With([c1 \in {xmlParseName(c)} |->
                  IF c1.rv = other THEN [c1 EXCEPT !.rv = MATCHED] ELSE c1])

xmlParseNmtoken(c) ==
    LET end == ScanWhile(c, c.cur, xmlIsNameChar)
    IN  IF c.instate = "XML_PARSER_EOF" \/ end = c.cur THEN [c EXCEPT !.rv = NULL]
        ELSE [c EXCEPT !.cur = end, !.rv = Slice(c, c.cur, end)]

\* prefix ":" ncname
xmlBuildQName(ncname, prefix) == prefix \o <<":">> \o ncname

\* rv is the local name (NULL on failure), rprefix the prefix
xmlParseQName(c) ==
    With([c1 \in {xmlParseNCName(c)} |->
        IF c1.rv = NULL
        THEN \* no NCName: a name starting with ':'
             IF RAW(c1) = ":"
             THEN With([n1 \in {xmlParseName(c1)} |->
                     IF n1.rv # NULL
                     THEN [xmlNsErr(n1, "XML_NS_ERR_QNAME") EXCEPT !.rv = n1.rv,
                                                                  !.rprefix = NULL]
                     ELSE [n1 EXCEPT !.rv = NULL]])
             ELSE [c1 EXCEPT !.rv = NULL]
        ELSE IF RAW(c1) # ":" THEN [c1 EXCEPT !.rprefix = NULL]
        ELSE \* after "p:"
             With([c2 \in {xmlParseNCName(NEXT(c1))} |->
               IF c2.rv = NULL
               THEN \* "p:" followed by no NCName
                    With([e1 \in {xmlParseNmtoken(xmlNsErr(c2, "XML_NS_ERR_QNAME"))} |->
                      [e1 EXCEPT !.rv = xmlBuildQName(IF e1.rv = NULL THEN <<>> ELSE e1.rv,
                                                      c1.rv),
                                 !.rprefix = NULL]])
               ELSE IF RAW(c2) = ":"
               THEN \* "p:l:"
                    With([e2 \in {xmlParseName(NEXT(xmlNsErr(c2, "XML_NS_ERR_QNAME")))} |->
                      [e2 EXCEPT !.rv = xmlBuildQName(IF e2.rv = NULL THEN <<>> ELSE e2.rv,
                                                      c2.rv),
                                 !.rprefix = c1.rv]])
               ELSE [c2 EXCEPT !.rprefix = c1.rv]])])

\* rv = MATCHED on success, NULL for an illegal name, else the name read
xmlParseQNameAndCompare(c, name, prefix) ==
    IF prefix = NULL THEN xmlParseNameAndCompare(c, name)
    ELSE
    LET k == CommonLen(c, prefix)
        c1 == [c EXCEPT !.cur = c.cur + k + 1]
        k2 == CommonLen(c1, name)
        in == c1.cur + k2
    IN  IF k = Len(prefix) /\ At(c, c.cur + k) = ":" /\ k2 = Len(name)
           /\ (At(c, in) = ">" \/ IS_BLANK_CH(At(c, in)))
        THEN [c EXCEPT !.cur = in, !.rv = MATCHED]
        ELSE With([q \in {xmlParseQName(c)} |->
                  IF q.rv = name /\ q.rprefix = prefix THEN [q EXCEPT !.rv = MATCHED]
                  ELSE q])

\* the URI bound to prefix by the innermost binding, or NULL
\* a lookup that searches the namespace stack from the bottom
xmlGetNamespace_outermost(c, prefix) ==
    LET hits == {i \in 1..Len(c.nsTab) : i % 2 = 1 /\ c.nsTab[i] = prefix}
        i == Min(hits)
    IN  IF prefix = str_xml THEN XML_XML_NAMESPACE
        ELSE IF hits = {} THEN NULL
        ELSE IF prefix = NULL /\ c.nsTab[i + 1] = <<>> THEN NULL
        ELSE c.nsTab[i + 1]

xmlGetNamespace(c, prefix) ==
    LET hits == {i \in 1..Len(c.nsTab) : i % 2 = 1 /\ c.nsTab[i] = prefix}
        i == Max(hits)
    IN  IF prefix = str_xml THEN XML_XML_NAMESPACE
        ELSE IF hits = {} THEN NULL
        ELSE IF prefix = NULL /\ c.nsTab[i + 1] = <<>> THEN NULL
        ELSE c.nsTab[i + 1]

-----------------------------------------------------------------------------
(* Character and entity references *)

DigitVal(ch) ==
    CASE ch = "0" -> 0 [] ch = "1" -> 1 [] ch = "2" -> 2 [] ch = "3" -> 3
      [] ch = "4" -> 4 [] ch = "5" -> 5 [] ch = "6" -> 6 [] ch = "7" -> 7
      [] ch = "8" -> 8 [] ch = "9" -> 9
      [] ch \in {"a", "A"} -> 10 [] ch \in {"b", "B"} -> 11
      [] ch \in {"c", "C"} -> 12 [] ch \in {"d", "D"} -> 13
      [] ch \in {"e", "E"} -> 14 [] ch \in {"f", "F"} -> 15

IsHexLetter(ch) == ch \in {"a", "b", "c", "d", "e", "f", "A", "B", "C", "D", "E", "F"}

\* the character with code point val, as the consumer receives it
CharOf(val) ==
    CASE val = 9 -> "\t" [] val = 10 -> "\n" [] val = 32 -> " "
      [] val = 38 -> "&" [] val = 60 -> "<" [] val = 62 -> ">"
      [] val = 120 -> "x" [] val = 121 -> "y"
      [] OTHER -> "#" \o ToString(val)

\* IS_CHAR on a code point
IS_CHAR_VAL(val) ==
    \/ val \in {9, 10, 13}
    \/ val >= 32 /\ val <= 55295
    \/ val >= 57344 /\ val <= 65533
    \/ val >= 65536 /\ val <= 1114111

\* val is an unsigned 32-bit integer: it is kept as the pair <<high half,
\* low half>> of 16-bit halves, and UIntMulAdd(val, base, d) is
\* val * base + d modulo 2^32
UIntMulAdd(val, base, d) ==
    LET lo == val[2] * base + d
    IN  <<(val[1] * base + lo \div 65536) % 65536, lo % 65536>>

\* val > 0x10FFFF
UIntOutOfRange(val) == val[1] > 16

\* the digit loop of xmlParseCharRef; base is 16 or 10.  rv is the pair
\* <<val, outofrange>>, outofrange being 0 or 1 for any non-zero value
RECURSIVE CharRefDigits(_, _, _, _, _)
CharRefDigits(c, base, val, count, outofrange) ==
    LET ch == RAW(c)
        cnt == IF count > 20 THEN 0 ELSE count + 1
        isDigit == IsDigit(ch)
        isHex == base = 16 /\ IsHexLetter(ch) /\ cnt < 20
        v == UIntMulAdd(val, base, DigitVal(ch))
        oor == IF UIntOutOfRange(v) THEN 1 ELSE outofrange
    IN  IF ch = ";" THEN [c EXCEPT !.cur = c.cur + 1, !.rv = <<val, outofrange>>]
        ELSE IF count > 20 /\ c.instate = "XML_PARSER_EOF"
        THEN [c EXCEPT !.rv = <<(<<0, 0>>), 2>>]
        ELSE IF isDigit \/ isHex
        THEN CharRefDigits(NEXT(c), base, v, cnt + 1, oor)
        ELSE [xmlFatalErr(c, IF base = 16 THEN "XML_ERR_INVALID_HEX_CHARREF"
                                          ELSE "XML_ERR_INVALID_DEC_CHARREF")
                EXCEPT !.rv = <<(<<0, 0>>), outofrange>>]

\* rv is the code point, 0 on error
xmlParseCharRef(c) ==
    With([c1 \in {IF RAW(c) = "&" /\ NXT(c, 1) = "#" /\ NXT(c, 2) = "x"
                  THEN CharRefDigits(SKIP(c, 3), 16, <<0, 0>>, 0, 0)
                  ELSE IF RAW(c) = "&" /\ NXT(c, 1) = "#"
                  THEN CharRefDigits(SKIP(c, 2), 10, <<0, 0>>, 0, 0)
                  ELSE [xmlFatalErr(c, "XML_ERR_INVALID_CHARREF")
                          EXCEPT !.rv = <<(<<0, 0>>), 0>>]} |->
        LET val == c1.rv[1][1] * 65536 + c1.rv[1][2]
        IN  IF c1.rv[2] = 2 THEN [c1 EXCEPT !.rv = 0]
            ELSE IF c1.rv[2] = 0 /\ IS_CHAR_VAL(val) THEN [c1 EXCEPT !.rv = val]
            ELSE [xmlFatalErrMsgInt(c1, "XML_ERR_INVALID_CHAR") EXCEPT !.rv = 0]])

\* xmlGetPredefinedEntity: the content of a predefined entity, or NULL
xmlGetPredefinedEntity(name) ==
    CASE name = <<"l", "t">> -> <<"<">>
      [] name = <<"g", "t">> -> <<">">>
      [] name = <<"a", "m", "p">> -> <<"&">>
      [] name = <<"a", "p", "o", "s">> -> <<"'">>
      [] name = <<"q", "u", "o", "t">> -> <<"\"">>
      [] OTHER -> NULL

\* An xmlEntity is known by its name: a pointer to an entity is the name,
\* NULL is no entity.

\* the getEntity callback of the consumer
getEntity(name) == IF name \in DOMAIN Entities THEN name ELSE NULL

\* ent->etype == XML_INTERNAL_PREDEFINED_ENTITY; every other entity is an
\* XML_INTERNAL_GENERAL_ENTITY
IsPredefined(ent) == xmlGetPredefinedEntity(ent) # NULL

\* ent->content
EntContent(ent) ==
    IF IsPredefined(ent) THEN xmlGetPredefinedEntity(ent) ELSE Entities[ent]

\* ent->checked
EntChecked(c, ent) == IF IsPredefined(ent) THEN 0 ELSE c.checked[ent]

\* xmlStrchr(s, '<') != NULL
HasLt(s) == \E i \in 1..Len(s) : s[i] = "<"

RECURSIVE xmlStringDecodeEntities(_, _)
RECURSIVE xmlParseContent(_)
RECURSIVE ContentItem(_)

\* a depth test that never stops the expansion
TooDeep_never(c) == FALSE

\* a depth test that has no limit left under XML_PARSE_HUGE
TooDeep_huge(c) == c.depth > 40 /\ ~Huge(c)

\* the depth of the entities that are being expanded is over the limit
TooDeep(c) == (c.depth > 40 /\ ~Huge(c)) \/ c.depth > 1024

\* ghost: an expansion goes on at the depth of c
Entered(c) == [c EXCEPT !.deepest = IF c.depth > @ THEN c.depth ELSE @]

\* is the content of ent decoded by xmlParserEntityCheck, to count the
\* entities it refers to?
EntityCheckDecodes(c, ent) ==
    ~Huge(c) /\ c.lastError # "XML_ERR_ENTITY_LOOP" /\ ent # NULL /\ ~IsPredefined(ent)
        /\ EntChecked(c, ent) = 0

\* ent->checked after the decoding that led from c to d
EntityCheckDecoded(c, ent, d) ==
    [d EXCEPT !.checked[ent] =
                  ((d.nbentities - c.nbentities + 1) * 2)
                  + (IF d.rvalue # NULL /\ HasLt(d.rvalue) THEN 1 ELSE 0)]

\* the same verdict refusing the expansion without recording the error
EntityCheckVerdict_quiet(c1, size, ent, replacement) ==
    IF replacement # 0 THEN [c1 EXCEPT !.unmodelled = TRUE, !.rv = 0]
    ELSE IF (IF size # 0
             THEN \/ size < XML_PARSER_BIG_ENTITY
                  \/ /\ size < XML_PARSER_NON_LINEAR * (c1.cur - 1)
                     /\ c1.nbentities * 3 < XML_PARSER_NON_LINEAR * (c1.cur - 1)
             ELSE IF ent # NULL
             THEN (EntChecked(c1, ent) \div 2) * 3 < (c1.cur - 1) * XML_PARSER_NON_LINEAR
             ELSE \/ c1.lastError \notin {"XML_ERR_UNDECLARED_ENTITY",
                                          "XML_WAR_UNDECLARED_ENTITY"}
                  \/ c1.nbentities <= 10000)
    THEN [c1 EXCEPT !.rv = 0]
    ELSE [c1 EXCEPT !.rv = 1]

\* the verdict of xmlParserEntityCheck.  consumed: the bytes read from the
\* single input of the context (input->consumed and sizeentities are 0); rv
\* is 1 when the expansion is judged an abuse, 0 otherwise
EntityCheckVerdict(c1, size, ent, replacement) ==
    IF replacement # 0 THEN [c1 EXCEPT !.unmodelled = TRUE, !.rv = 0]
    ELSE IF (IF size # 0
             THEN \/ size < XML_PARSER_BIG_ENTITY
                  \/ /\ size < XML_PARSER_NON_LINEAR * (c1.cur - 1)
                     /\ c1.nbentities * 3 < XML_PARSER_NON_LINEAR * (c1.cur - 1)
             ELSE IF ent # NULL
             THEN (EntChecked(c1, ent) \div 2) * 3 < (c1.cur - 1) * XML_PARSER_NON_LINEAR
             ELSE \/ c1.lastError \notin {"XML_ERR_UNDECLARED_ENTITY",
                                          "XML_WAR_UNDECLARED_ENTITY"}
                  \/ c1.nbentities <= 10000)
    THEN [c1 EXCEPT !.rv = 0]
    ELSE [xmlFatalErr(c1, "XML_ERR_ENTITY_LOOP") EXCEPT !.rv = 1]

xmlParserEntityCheck(c, size, ent, replacement) ==
    IF Huge(c) THEN [c EXCEPT !.rv = 0]
    ELSE IF c.lastError = "XML_ERR_ENTITY_LOOP" THEN [c EXCEPT !.rv = 1]
    ELSE EntityCheckVerdict(
             IF EntityCheckDecodes(c, ent)
             THEN EntityCheckDecoded(c, ent, xmlStringDecodeEntities(
                                                 [c EXCEPT !.checked[ent] = 1],
                                                 EntContent(ent)))
             ELSE c,
             size, ent, replacement)

\* the test that makes the reference to an undeclared entity a fatal error,
\* without the test of the external subset
UndeclaredIsFatal_norefs(c) == c.standalone = 1 \/ c.hasPErefs = 0

\* [WFC: Entity Declared] the test that makes the reference to an undeclared
\* entity a fatal error
UndeclaredIsFatal(c) ==
    c.standalone = 1 \/ (c.hasExternalSubset = 0 /\ c.hasPErefs = 0)

\* the entity checks that xmlParseEntityRef and xmlParseStringEntityRef
\* share, from the lookup on; ltAlways is FALSE for the first, which
\* looks for '<' only in an entity not yet checked or flagged by a check
EntityLookup(c, name, ltAlways) ==
    With([c3 \in {[c EXCEPT !.nbentities = @ + 1]} |->
        With([ent \in {getEntity(name)} |->
            IF c3.instate = "XML_PARSER_EOF" THEN [c3 EXCEPT !.rv = NULL, !.rptr = 0]
            ELSE IF ent = NULL
            THEN [xmlParserEntityCheck(
                    IF UndeclaredIsFatal(c3)
                    THEN xmlFatalErrMsgStr(c3, "XML_ERR_UNDECLARED_ENTITY")
                    ELSE With([w \in {xmlErrMsgStr(c3, "XML_WAR_UNDECLARED_ENTITY")} |->
                           IF ~ltAlways /\ w.inSubset = 0
                           THEN Deliver(w, [kind |-> "reference", name |-> name])
                           ELSE w]),
                    0, NULL, 0)
                    EXCEPT !.valid = IF ltAlways THEN @ ELSE 0, !.rv = NULL]
            ELSE IF /\ c3.instate = "XML_PARSER_ATTRIBUTE_VALUE"
                    /\ ltAlways \/ EntChecked(c3, ent) % 2 = 1 \/ EntChecked(c3, ent) = 0
                    /\ HasLt(EntContent(ent))
            THEN [xmlFatalErrMsgStr(c3, "XML_ERR_LT_IN_ATTRIBUTE") EXCEPT !.rv = ent]
            ELSE [c3 EXCEPT !.rv = ent]])])

\* rv is the entity, NULL if none
xmlParseEntityRef(c) ==
    IF c.instate = "XML_PARSER_EOF" \/ RAW(c) # "&" THEN [c EXCEPT !.rv = NULL]
    ELSE
    With([c1 \in {xmlParseName(NEXT(c))} |->
        IF c1.rv = NULL
        THEN [xmlFatalErrMsg(c1, "XML_ERR_NAME_REQUIRED") EXCEPT !.rv = NULL]
        ELSE IF RAW(c1) # ";"
        THEN [xmlFatalErr(c1, "XML_ERR_ENTITYREF_SEMICOL_MISSING") EXCEPT !.rv = NULL]
        ELSE IF xmlGetPredefinedEntity(c1.rv) # NULL THEN NEXT(c1)
        ELSE EntityLookup(NEXT(c1), c1.rv, FALSE)])

\* xmlParseStringName at str[i]: the index after the name, i if there is none
StringNameEnd(str, i) ==
    IF i > Len(str) \/ ~xmlIsNameStartChar(str[i]) THEN i
    ELSE Min({j \in (i + 1)..(Len(str) + 1) : j > Len(str) \/ ~xmlIsNameChar(str[j])})

\* the reference at str[i]; rv is the entity, NULL if none, and rptr the
\* index *ppStr is left at (0: left where it was)
xmlParseStringEntityRef(c, str, i) ==
    IF str[i] # "&" THEN [c EXCEPT !.rv = NULL, !.rptr = 0]
    ELSE
    With([e \in {StringNameEnd(str, i + 1)} |->
        IF e = i + 1
        THEN [xmlFatalErrMsg(c, "XML_ERR_NAME_REQUIRED") EXCEPT !.rv = NULL, !.rptr = e]
        ELSE IF e > Len(str) \/ str[e] # ";"
        THEN [xmlFatalErr(c, "XML_ERR_ENTITYREF_SEMICOL_MISSING")
                EXCEPT !.rv = NULL, !.rptr = e]
        ELSE IF xmlGetPredefinedEntity(SubSeq(str, i + 1, e - 1)) # NULL
        THEN [c EXCEPT !.rv = SubSeq(str, i + 1, e - 1), !.rptr = e + 1]
        ELSE EntityLookup([c EXCEPT !.rptr = e + 1], SubSeq(str, i + 1, e - 1), TRUE)])

-----------------------------------------------------------------------------
(* The calls of xmlStringLenDecodeEntities that are open at one time, one  *)
(* inside the other, with what = XML_SUBSTITUTE_REF and no end marker.     *)
(* stack holds one frame for each open call, the innermost last: str is    *)
(* the string, i the index the loop stands at, buffer the translation      *)
(* buffer.  c is the context, which all the calls share.  phase is "call"  *)
(* when a call is made on the string arg, "run" inside the innermost call, *)
(* "ret" when a call returned c.rvalue, "done" when the outermost call     *)
(* returned.  Outside the domain: a character reference in an entity       *)
(* value, and a replacement that makes the buffer grow (the check by size  *)
(* is then called).                                                        *)

DecodeCall(c, str) == [stack |-> <<>>, phase |-> "call", c |-> c, arg |-> str]

DecodeReturned(m, c) ==
    [m EXCEPT !.stack = SubSeq(@, 1, Len(@) - 1), !.phase = "ret", !.c = c]

DecodeAt(m, c, i, buffer) ==
    [m EXCEPT !.stack[Len(m.stack)].i = i, !.stack[Len(m.stack)].buffer = buffer,
              !.phase = "run", !.c = c]

\* the turn of the loop after xmlParserEntityCheck left the context as c2:
\* the entity ent is replaced, and the loop goes on at next
DecodeChecked(m, ent, next, c2) ==
    With([f \in {m.stack[Len(m.stack)]} |->
        IF ent = NULL THEN DecodeAt(m, c2, next, f.buffer)
        ELSE IF IsPredefined(ent)
        THEN DecodeAt(m, c2, next, Append(f.buffer, EntContent(ent)[1]))
        ELSE [DecodeAt(m, [c2 EXCEPT !.nbentities = @ + (EntChecked(c2, ent) \div 2),
                                     !.depth = @ + 1],
                       next, f.buffer)
                EXCEPT !.phase = "call", !.arg = EntContent(ent),
                       !.stack[Len(m.stack)].wait = "replacement"]])

\* the loop of the innermost call, up to the next reference
DecodeTurn(m) ==
    With([f \in {m.stack[Len(m.stack)]} |->
        IF f.i > Len(f.str) THEN DecodeReturned(m, [m.c EXCEPT !.rvalue = f.buffer])
        ELSE IF f.str[f.i] = "&" /\ f.i < Len(f.str) /\ f.str[f.i + 1] = "#"
        THEN DecodeReturned(m, [m.c EXCEPT !.unmodelled = TRUE, !.rvalue = NULL])
        ELSE IF f.str[f.i] # "&"
        THEN With([j \in {Min({k \in f.i..(Len(f.str) + 1) :
                                  k > Len(f.str) \/ f.str[k] = "&"})} |->
                 DecodeAt(m, m.c, j, f.buffer \o SubSeq(f.str, f.i, j - 1))])
        ELSE
        With([c1 \in {xmlParseStringEntityRef(m.c, f.str, f.i)} |->
            IF c1.lastError \in {"XML_ERR_ENTITY_LOOP", "XML_ERR_INTERNAL_ERROR"}
            THEN DecodeReturned(m, [c1 EXCEPT !.rvalue = NULL])
            ELSE IF c1.rptr = 0
            THEN DecodeReturned(m, [c1 EXCEPT !.unmodelled = TRUE, !.rvalue = NULL])
            ELSE IF EntityCheckDecodes(c1, c1.rv)
            THEN [m EXCEPT !.phase = "call", !.arg = EntContent(c1.rv),
                           !.c = [c1 EXCEPT !.checked[c1.rv] = 1],
                           !.stack[Len(m.stack)].wait = "check",
                           !.stack[Len(m.stack)].c1 = c1]
            ELSE DecodeChecked(m, c1.rv, c1.rptr, xmlParserEntityCheck(c1, 0, c1.rv, 0))])])

\* the call that waited goes on: xmlParserEntityCheck with the content it
\* decoded, or the loop with the replacement
DecodeResume(m) ==
    With([f \in {m.stack[Len(m.stack)]} |->
        IF f.wait = "check"
        THEN DecodeChecked(m, f.c1.rv, f.c1.rptr,
                           EntityCheckVerdict(EntityCheckDecoded(f.c1, f.c1.rv, m.c),
                                              0, f.c1.rv, 0))
        ELSE
        With([d \in {[m.c EXCEPT !.depth = @ - 1]} |->
            IF m.c.rvalue = NULL THEN DecodeAt(m, d, f.i, f.buffer)
            ELSE IF Len(f.buffer) + Len(m.c.rvalue) + XML_PARSER_BUFFER_SIZE
                        > XML_PARSER_BIG_BUFFER_SIZE
            THEN DecodeReturned(m, [d EXCEPT !.unmodelled = TRUE, !.rvalue = NULL])
            ELSE DecodeAt(m, d, f.i, f.buffer \o m.c.rvalue)])])

DecodeStep(m) ==
    CASE m.phase = "call" ->
           IF TooDeep(m.c)
           THEN [m EXCEPT !.phase = "ret",
                          !.c = [xmlFatalErr(m.c, "XML_ERR_ENTITY_LOOP")
                                   EXCEPT !.rvalue = NULL, !.refused = TRUE]]
           ELSE [m EXCEPT !.stack = Append(@, [str |-> m.arg, i |-> 1, buffer |-> <<>>,
                                              wait |-> "replacement", c1 |-> m.c]),
                          !.c = Entered(m.c),
                          !.phase = "run"]
      [] m.phase = "run" -> DecodeTurn(m)
      [] m.phase = "ret" -> IF m.stack = <<>> THEN [m EXCEPT !.phase = "done"]
                            ELSE DecodeResume(m)
      [] OTHER -> m

\* n steps, or as many as lead to "done"
MaxSteps == 8192

RECURSIVE DecodeRun(_, _)
DecodeRun(m, n) ==
    IF m.phase = "done" \/ n = 0 THEN m
    ELSE IF n = 1 THEN DecodeStep(m)
    ELSE DecodeRun(DecodeRun(m, n \div 2), n - (n \div 2))

\* rvalue is the string with the references replaced, NULL on failure
xmlStringDecodeEntities(c, str) ==
    With([m \in {DecodeRun(DecodeCall(c, str), MaxSteps)} |->
        IF m.phase = "done" THEN m.c
        ELSE [c EXCEPT !.unmodelled = TRUE, !.rvalue = NULL, !.deepest = m.c.deepest]])

\* the content of an entity is parsed by a context of its own, created on
\* the string; it reports to the consumer of the old context (events,
\* errs) and works on the same entities (checked)
ChunkCtxt(oldctxt, string) ==
    [NewParserCtxt(0, oldctxt.stopAt)
       EXCEPT !.buf = string, !.nsTab = oldctxt.nsTab, !.nodeNr = 1,
              !.instate = "XML_PARSER_CONTENT",
              !.depth = oldctxt.depth + 1,
              !.replaceEntities = oldctxt.replaceEntities,
              !.attsSpecial = oldctxt.attsSpecial,
              !.events = oldctxt.events, !.errs = oldctxt.errs,
              !.checked = oldctxt.checked, !.nested = TRUE,
              !.options = oldctxt.options,
              !.deepest = oldctxt.deepest, !.refused = oldctxt.refused]

\* xmlParseBalancedChunkMemoryInternal after xmlParseContent left the
\* context of the string as c1.  rv is the error code returned.  The
\* consumer holds the context of the document: a stop it asked for reaches
\* that context only
ChunkFinish(oldctxt, c1) ==
    With([c2 \in {IF RAW(c1) = "<" /\ NXT(c1, 1) = "/"
                  THEN xmlFatalErr(c1, "XML_ERR_NOT_WELL_BALANCED")
                  ELSE IF RAW(c1) # NUL THEN xmlFatalErr(c1, "XML_ERR_EXTRA_CONTENT")
                  ELSE c1} |->
        With([c3 \in {IF c2.nodeNr # 1
                      THEN xmlFatalErr(c2, "XML_ERR_NOT_WELL_BALANCED") ELSE c2} |->
            With([r \in {[oldctxt EXCEPT
                            !.events = c3.events, !.errs = c3.errs,
                            !.checked = c3.checked,
                            !.nbentities = @ + c3.nbentities,
                            !.lastError = IF c3.lastError # "XML_ERR_OK"
                                          THEN c3.lastError ELSE @,
                            !.unmodelled = @ \/ c3.unmodelled,
                            !.deepest = c3.deepest, !.refused = c3.refused,
                            !.stalled = @ \/ c3.stalled, !.repeated = @ \/ c3.repeated,
                            !.rv = IF c3.wellFormed = 1 THEN "XML_ERR_OK"
                                   ELSE IF c3.errNo = "XML_ERR_OK"
                                   THEN "XML_ERR_INTERNAL_ERROR" ELSE c3.errNo]} |->
                IF ~c3.stopReq THEN r
                ELSE IF oldctxt.nested THEN [r EXCEPT !.stopReq = TRUE]
                ELSE [xmlStopParser(r) EXCEPT !.rv = r.rv]])])])

Characters(c, data) == Deliver(c, [kind |-> "characters", data |-> data])

\* the first reference to an entity parses its content, which checks that
\* it is well formed: what xmlParseReference does with b, the context as
\* xmlParseBalancedChunkMemoryInternal left it; c is the context before the
\* call.  rv is NULL when xmlParseReference returns from here.  The consumer
\* builds no tree: the list of nodes is empty
FirstReferenceAfter(c, ent, b) ==
    With([b1 \in {[b EXCEPT !.depth = @ - 1,
                            !.checked[ent] =
                                ((b.nbentities - c.nbentities + 1) * 2)
                                + (IF HasLt(EntContent(ent)) THEN 1 ELSE 0)]} |->
        IF b.rv = "XML_ERR_ENTITY_LOOP"
        THEN [xmlFatalErr(b1, "XML_ERR_ENTITY_LOOP") EXCEPT !.rv = NULL]
        ELSE
        With([k \in {xmlParserEntityCheck(b1, 0, ent, 0)} |->
            IF k.rv = 1 THEN [k EXCEPT !.rv = NULL]
            ELSE IF b.rv \notin {"XML_ERR_OK", "XML_WAR_UNDECLARED_ENTITY"}
            THEN [xmlParserEntityCheck(
                      xmlFatalErrMsgStr(k, "XML_ERR_UNDECLARED_ENTITY"), 0, ent, 0)
                    EXCEPT !.rv = ent]
            ELSE [k EXCEPT !.rv = ent]])])

\* a later reference parses the content again, for its callbacks: the
\* context handed to xmlParseBalancedChunkMemoryInternal
NextReferenceBefore(c, was_checked) ==
    [c EXCEPT !.nbentities = IF was_checked # 1 THEN @ + (was_checked \div 2) ELSE @,
              !.depth = @ + 1]

NextReferenceAfter(ent, b) ==
    IF b.rv = "XML_ERR_ENTITY_LOOP"
    THEN [xmlFatalErr([b EXCEPT !.depth = @ - 1], "XML_ERR_ENTITY_LOOP")
            EXCEPT !.rv = NULL]
    ELSE [b EXCEPT !.depth = @ - 1, !.rv = ent]

\* is the content of the entity that xmlParseEntityRef left in c1.rv to be
\* parsed?
ContentToParse(c1) == c1.rv # NULL /\ c1.wellFormed # 0 /\ ~IsPredefined(c1.rv)

\* xmlParseReference after xmlParseEntityRef, when no content is parsed
ReferenceNoContent(c1) ==
    IF c1.rv = NULL \/ c1.wellFormed = 0 THEN c1
    ELSE IF c1.disableSAX = 0 THEN Characters(c1, EntContent(c1.rv)) ELSE c1

\* xmlParseReference after the content of ent was parsed
ReferenceAfterContent(ent, c2) ==
    IF c2.rv = NULL THEN c2
    ELSE IF c2.replaceEntities = 0 /\ c2.disableSAX = 0
    THEN Deliver(c2, [kind |-> "reference", name |-> ent])
    ELSE c2

\* is the loop of xmlParseContent over?
ContentEnded(c) ==
    RAW(c) = NUL \/ (RAW(c) = "<" /\ NXT(c, 1) = "/") \/ c.instate = "XML_PARSER_EOF"

\* ghost: a turn of the content loop led from c to c1.  turnAt is where
\* the last turn started; stalled: a turn left the read position where it
\* was; repeated: a turn started where the turn before it had started
Turned(c, c1) ==
    [c1 EXCEPT !.turnAt = c.cur,
               !.stalled = @ \/ (c1.cur = c.cur /\ c1.stopped = c.stopped),
               !.repeated = @ \/ c.turnAt = c.cur]

\* test == CUR_PTR after the turn that led from c to c1: the pointer is
\* compared, so a parser stopped by the consumer (whose input was replaced
\* by "") has moved
ContentTest(c, c1) ==
    IF c1.cur = c.cur /\ c1.stopped = c.stopped
    THEN SetState(xmlFatalErr(Turned(c, c1), "XML_ERR_INTERNAL_ERROR"), "XML_PARSER_EOF")
    ELSE Turned(c, c1)

-----------------------------------------------------------------------------
(* The calls of xmlParseBalancedChunkMemoryInternal that are open at one   *)
(* time, one inside the other: an entity whose content refers to an entity *)
(* at its top level.  stack holds one frame for each open call, the        *)
(* innermost last: old is the context the call was given, c the context of *)
(* the string; in a frame that waits for an inner call, c0 is c at the     *)
(* start of the turn of xmlParseContent, c1 after xmlParseEntityRef, ent   *)
(* the entity and first tells which of the two calls of xmlParseReference  *)
(* it is.  phase is "call" when a call is made with the context b and the  *)
(* string str, "run" inside the innermost call, "ret" when a call returned *)
(* b, "done" when the outermost call returned.                             *)

ChunkFrame(old, c) == [old |-> old, c |-> c, c0 |-> c, c1 |-> c, ent |-> NULL, first |-> FALSE]

ChunkCall(oldctxt, string) ==
    [stack |-> <<>>, phase |-> "call", b |-> oldctxt, str |-> string]

Top(m) == m.stack[Len(m.stack)]

SetTop(m, f) == [m EXCEPT !.stack[Len(m.stack)] = f]

\* the turn of xmlParseContent in the innermost call
ChunkTurn(m) ==
    With([f \in {Top(m)} |->
        IF ContentEnded(f.c)
        THEN [m EXCEPT !.stack = SubSeq(@, 1, Len(@) - 1), !.phase = "ret",
                       !.b = ChunkFinish(f.old, f.c)]
        ELSE IF RAW(f.c) = "&" /\ NXT(f.c, 1) # "#"
        THEN With([c1 \in {xmlParseEntityRef(f.c)} |->
                 IF ~ContentToParse(c1)
                 THEN SetTop(m, [f EXCEPT !.c = ContentTest(f.c, ReferenceNoContent(c1))])
                 ELSE [SetTop(m, [f EXCEPT !.c0 = f.c, !.c1 = c1, !.ent = c1.rv,
                                           !.first = (EntChecked(c1, c1.rv) = 0)])
                         EXCEPT !.phase = "call",
                                !.b = IF EntChecked(c1, c1.rv) = 0
                                      THEN [c1 EXCEPT !.depth = @ + 1]
                                      ELSE NextReferenceBefore(c1, EntChecked(c1, c1.rv)),
                                !.str = EntContent(c1.rv)]])
        ELSE SetTop(m, [f EXCEPT !.c = ContentTest(f.c, ContentItem(f.c))])])

\* xmlParseReference and xmlParseContent go on in the call that waited
ChunkReturn(m) ==
    With([f \in {Top(m)} |->
        [SetTop(m, [f EXCEPT !.c = ContentTest(
                                       f.c0,
                                       ReferenceAfterContent(
                                           f.ent,
                                           IF f.first THEN FirstReferenceAfter(f.c1, f.ent, m.b)
                                           ELSE NextReferenceAfter(f.ent, m.b)))])
           EXCEPT !.phase = "run"]])

ChunkStep(m) ==
    CASE m.phase = "call" ->
           IF TooDeep(m.b)
           THEN [m EXCEPT !.phase = "ret", !.b.rv = "XML_ERR_ENTITY_LOOP",
                          !.b.refused = TRUE]
           ELSE [m EXCEPT !.stack = Append(@, ChunkFrame(m.b, ChunkCtxt(Entered(m.b),
                                                                        m.str))),
                          !.phase = "run"]
      [] m.phase = "run" -> ChunkTurn(m)
      [] m.phase = "ret" -> IF m.stack = <<>> THEN [m EXCEPT !.phase = "done"]
                            ELSE ChunkReturn(m)
      [] OTHER -> m

RECURSIVE ChunkRun(_, _)
ChunkRun(m, n) ==
    IF m.phase = "done" \/ n = 0 THEN m
    ELSE IF n = 1 THEN ChunkStep(m)
    ELSE ChunkRun(ChunkRun(m, n \div 2), n - (n \div 2))

\* rv is the error code returned
xmlParseBalancedChunkMemoryInternal(oldctxt, string) ==
    With([m \in {ChunkRun(ChunkCall(oldctxt, string), MaxSteps)} |->
        IF m.phase = "done" THEN m.b
        ELSE [oldctxt EXCEPT !.unmodelled = TRUE, !.rv = "XML_ERR_OK",
                             !.deepest = IF m.stack # <<>> THEN Top(m).c.deepest
                                         ELSE m.b.deepest]])

FirstReference(c, ent) ==
    FirstReferenceAfter(c, ent, xmlParseBalancedChunkMemoryInternal(
                                    [c EXCEPT !.depth = @ + 1], EntContent(ent)))

NextReference(c, ent, was_checked) ==
    NextReferenceAfter(ent, xmlParseBalancedChunkMemoryInternal(
                                NextReferenceBefore(c, was_checked), EntContent(ent)))

xmlParseReference(c) ==
    IF RAW(c) # "&" THEN c
    ELSE IF NXT(c, 1) = "#"
    THEN With([c1 \in {xmlParseCharRef(c)} |->
             IF c1.rv = 0 THEN c1
             ELSE IF c1.charset # "XML_CHAR_ENCODING_UTF8" /\ c1.rv > 255
             THEN IF c1.disableSAX = 0
                  THEN Deliver(c1, [kind |-> "reference",
                                    name |-> <<"#" \o ToString(c1.rv)>>])
                  ELSE c1
             ELSE IF c1.disableSAX = 0 THEN Characters(c1, <<CharOf(c1.rv)>>) ELSE c1])
    ELSE With([c1 \in {xmlParseEntityRef(c)} |->
             IF ~ContentToParse(c1) THEN ReferenceNoContent(c1)
             ELSE ReferenceAfterContent(
                      c1.rv,
                      IF EntChecked(c1, c1.rv) = 0 THEN FirstReference(c1, c1.rv)
                      ELSE NextReference(c1, c1.rv, EntChecked(c1, c1.rv)))])

-----------------------------------------------------------------------------
(* Attribute values and attributes *)

CharRefAmp == <<"&", "#", "3", "8", ";">>

\* the replacement text copied into an attribute value: 0xD, 0xA and 0x9
\* become 0x20
BlanksToSpaces(rep) ==
    [k \in 1..Len(rep) |-> IF rep[k] \in {"\r", "\n", "\t"} THEN " " ELSE rep[k]]

\* while (len > 0 && buf[len - 1] == 0x20) len--
TrimTrailingSpaces(val) ==
    SubSeq(val, 1, Max({l \in 0..Len(val) : l = 0 \/ val[l] # " "}))

\* an entity reference of an attribute value that always copies the
\* character of a predefined entity
AttValueEntityRef_inline(c) ==
    With([c1 \in {xmlParseEntityRef(c)} |->
        With([c2 \in {[c1 EXCEPT !.nbentities = @ + 1]} |->
            IF c1.rv = NULL THEN [c2 EXCEPT !.rvalue = <<>>]
            ELSE IF IsPredefined(c1.rv)
            THEN [c2 EXCEPT !.rvalue = <<EntContent(c1.rv)[1]>>]
            ELSE [c2 EXCEPT !.rvalue = Ref(c1.rv)]])])

\* the entity reference of an attribute value: what it adds to the
\* translation buffer is left in rvalue
AttValueEntityRef(c) ==
    With([c1 \in {xmlParseEntityRef(c)} |->
        With([c2 \in {[c1 EXCEPT !.nbentities = @ + 1]} |->
            IF c1.rv = NULL THEN [c2 EXCEPT !.rvalue = <<>>]
            ELSE IF IsPredefined(c1.rv)
            THEN [c2 EXCEPT !.rvalue =
                     IF c2.replaceEntities = 0 /\ EntContent(c1.rv)[1] = "&"
                     THEN CharRefAmp ELSE <<EntContent(c1.rv)[1]>>]
            ELSE IF c2.replaceEntities # 0
            THEN With([d \in {xmlStringDecodeEntities(c2, EntContent(c1.rv))} |->
                     [d EXCEPT !.rvalue = IF d.rvalue = NULL THEN <<>>
                                          ELSE BlanksToSpaces(d.rvalue)]])
            ELSE IF EntChecked(c2, c1.rv) # 0 THEN [c2 EXCEPT !.rvalue = Ref(c1.rv)]
            ELSE With([d \in {xmlStringDecodeEntities(c2, EntContent(c1.rv))} |->
                     [d EXCEPT !.checked[c1.rv] =
                                   ((d.nbentities - c2.nbentities + 1) * 2)
                                   + (IF d.rvalue # NULL /\ HasLt(d.rvalue) THEN 1 ELSE 0),
                               !.rvalue = Ref(c1.rv)]])])])

\* the loop of xmlParseAttValueComplex; val is the translation buffer
RECURSIVE AttValueComplexLoop(_, _, _, _, _)
AttValueComplexLoop(c, limit, val, normalize, in_space) ==
    LET ch == CUR_CHAR(c)
    IN  IF ~(NXT(c, 0) # limit /\ IS_CHAR(ch) /\ ch # "<" /\ c.instate # "XML_PARSER_EOF")
        THEN [c EXCEPT !.rvalue = IF in_space /\ normalize # 0
                                  THEN TrimTrailingSpaces(val) ELSE val]
        ELSE IF ch = "&" /\ NXT(c, 1) = "#"
        THEN With([c1 \in {xmlParseCharRef(c)} |->
                 AttValueComplexLoop(c1, limit,
                     val \o (IF c1.rv = 38
                             THEN (IF c1.replaceEntities # 0 THEN <<"&">> ELSE CharRefAmp)
                             ELSE IF c1.rv # 0 THEN <<CharOf(c1.rv)>> ELSE <<>>),
                     normalize, FALSE)])
        ELSE IF ch = "&"
        THEN With([c1 \in {AttValueEntityRef(c)} |->
                 AttValueComplexLoop(c1, limit, val \o c1.rvalue, normalize, FALSE)])
        ELSE IF IS_BLANK_CH(ch)
        THEN IF Len(val) # 0 \/ normalize = 0
             THEN AttValueComplexLoop(NEXTL(c), limit,
                      IF normalize = 0 \/ ~in_space THEN Append(val, " ") ELSE val,
                      normalize, TRUE)
             ELSE AttValueComplexLoop(NEXTL(c), limit, val, normalize, in_space)
        ELSE AttValueComplexLoop(NEXTL(c), limit, Append(val, ch), normalize, FALSE)

\* rvalue is the value, NULL on failure
xmlParseAttValueComplex(c, normalize) ==
    IF NXT(c, 0) \notin {"\"", "'"}
    THEN [xmlFatalErr(c, "XML_ERR_ATTRIBUTE_NOT_STARTED") EXCEPT !.rvalue = NULL]
    ELSE
    With([c1 \in {AttValueComplexLoop(NEXT(SetState(c, "XML_PARSER_ATTRIBUTE_VALUE")),
                                      NXT(c, 0), <<>>, normalize, FALSE)} |->
        IF c1.instate = "XML_PARSER_EOF" THEN [c1 EXCEPT !.rvalue = NULL]
        ELSE IF RAW(c1) = "<" THEN xmlFatalErr(c1, "XML_ERR_LT_IN_ATTRIBUTE")
        ELSE IF RAW(c1) # NXT(c, 0)
        THEN (IF CUR_CHAR(c1) # NUL /\ ~IS_CHAR(CUR_CHAR(c1))
              THEN xmlFatalErrMsg(c1, "XML_ERR_INVALID_CHAR")
              ELSE xmlFatalErrMsg(c1, "XML_ERR_ATTRIBUTE_NOT_FINISHED"))
        ELSE NEXT(c1)])

SkipTrailingSpaces_none(c, start, in) == in

\* while ((last[-1] == 0x20) && (last > start)) last--
SkipTrailingSpaces(c, start, in) ==
    Max({l \in start..in : ~(l > start /\ At(c, l - 1) = " ")})

IsAttValueFast_strict(limit, ch) ==
    ch # limit /\ IsPrintable(ch) /\ ch # " " /\ ch # "&" /\ ch # "<"

IsAttValueFast(limit, ch) == ch # limit /\ IsPrintable(ch) /\ ch # "&" /\ ch # "<"

\* rvalue is the value, NULL on failure; ralloc is 0 when the value is the
\* bytes of the input themselves, 1 when it is a string built for it
xmlParseAttValueInternal(c, normalize) ==
    IF RAW(c) \notin {"\"", "'"}
    THEN [xmlFatalErr(c, "XML_ERR_ATTRIBUTE_NOT_STARTED") EXCEPT !.rvalue = NULL]
    ELSE
    LET limit == RAW(c)
        upto == Len(c.buf) + 1
        blank(j) == At(c, j) # limit /\ IS_BLANK_CH(At(c, j))
        \* the leading blanks are skipped
        start == IF normalize = 0 THEN c.cur + 1
                 ELSE Min({j \in (c.cur + 1)..upto : ~blank(j)})
        \* the scan ends on the second of two spaces
        in == Min({j \in start..upto :
                     \/ ~IsAttValueFast(limit, At(c, j))
                     \/ normalize # 0 /\ j > start /\ At(c, j - 1) = " " /\ At(c, j) = " "})
        \* the trailing spaces are left out, the trailing blanks skipped
        last == IF normalize = 0 THEN in ELSE SkipTrailingSpaces(c, start, in)
        stop == IF normalize = 0 THEN in ELSE Min({j \in in..upto : ~blank(j)})
        c1 == SetState(c, "XML_PARSER_ATTRIBUTE_VALUE")
    IN  IF At(c, stop) # limit
        THEN [xmlParseAttValueComplex(c1, normalize) EXCEPT !.ralloc = 1]
        ELSE [c1 EXCEPT !.cur = stop + 1, !.rvalue = Slice(c, start, last), !.ralloc = 0]

\* the copying loop of xmlAttrNormalizeSpace from index i on: a run of
\* spaces is skipped and one space is written for it unless it ends the
\* string
RECURSIVE NormalizeSpaceLoop(_, _, _)
NormalizeSpaceLoop(src, i, dst) ==
    IF i > Len(src) THEN dst
    ELSE IF src[i] = " "
    THEN LET j == Min({k \in i..(Len(src) + 1) : k > Len(src) \/ src[k] # " "})
         IN  NormalizeSpaceLoop(src, j, IF j <= Len(src) THEN Append(dst, " ") ELSE dst)
    ELSE NormalizeSpaceLoop(src, i + 1, Append(dst, src[i]))

\* xmlAttrNormalizeSpace(src, dst): the leading spaces are skipped, then the
\* loop copies
xmlAttrNormalizeSpace(src) ==
    NormalizeSpaceLoop(src, Min({k \in 1..(Len(src) + 1) : k > Len(src) \/ src[k] # " "}),
                       <<>>)

\* the value after the second pass, src itself where no conversion is
\* needed
xmlAttrNormalizeSpace2(src) ==
    IF src = NULL \/ Len(src) <= 0 THEN src
    ELSE
    LET remove_head == Min({h \in 0..Len(src) : h = Len(src) \/ src[h + 1] # " "})
        rest == SubSeq(src, remove_head + 1, Len(src))
        need_realloc == \E k \in 1..Len(rest) :
                            rest[k] = " " /\ (k = Len(rest) \/ rest[k + 1] = " ")
    IN  IF need_realloc THEN xmlAttrNormalizeSpace(rest) ELSE rest

\* rv is the attribute name, rprefix its prefix, rvalue its value; pref and
\* elem name the element.  attsSpecial holds the attributes declared with
\* a type other than CDATA, as <<pref, elem, prefix, name>>
xmlParseAttribute2(c, pref, elem) ==
    With([c1 \in {xmlParseQName([c EXCEPT !.rvalue = NULL])} |->
        IF c1.rv = NULL
        THEN [xmlFatalErrMsg(c1, "XML_ERR_NAME_REQUIRED") EXCEPT !.rv = NULL]
        ELSE
        With([c2 \in {SKIP_BLANKS(c1)} |->
            IF RAW(c2) # "="
            THEN [xmlFatalErrMsgStr(c2, "XML_ERR_ATTRIBUTE_WITHOUT_VALUE")
                    EXCEPT !.rv = NULL]
            ELSE
            With([normalize \in {IF <<pref, elem, c1.rprefix, c1.rv>> \in c1.attsSpecial
                                 THEN 1 ELSE 0} |->
            With([c3 \in {xmlParseAttValueInternal(SKIP_BLANKS(NEXT(c2)), normalize)} |->
            With([c4 \in {SetState(IF normalize # 0 /\ c3.ralloc # 0
                                   THEN [c3 EXCEPT !.rvalue = xmlAttrNormalizeSpace2(@)]
                                   ELSE c3,
                                   "XML_PARSER_CONTENT")} |->
                [(IF c4.rprefix = str_xml /\ c1.rv = <<"s", "p", "a", "c", "e">>
                  THEN IF c4.rvalue = <<"d", "e", "f", "a", "u", "l", "t">>
                       THEN [c4 EXCEPT !.spaceTab[Len(c4.spaceTab)] = 0]
                       ELSE IF c4.rvalue = <<"p", "r", "e", "s", "e", "r", "v", "e">>
                       THEN [c4 EXCEPT !.spaceTab[Len(c4.spaceTab)] = 1]
                       ELSE xmlWarningMsg(c4, "XML_WAR_SPACE_VALUE")
                  ELSE c4)
                    EXCEPT !.rv = c1.rv]])])])])])

-----------------------------------------------------------------------------
(* Start tags *)

\* xmlParseURI: does the URL parse as a URI reference, and has it a scheme
URIValid(URL) == \A i \in 1..Len(URL) : URL[i] \notin {" ", "<", ">", "\""}

URIHasScheme(URL) == \E i \in 2..Len(URL) : URL[i] = ":" /\ \A k \in 1..(i - 1) : URL[k] # "/"

\* is pfx bound by one of the nbNs declarations already read on this tag
NsDeclaredOnTag(c, nbNs, pfx) ==
    \E j \in 1..nbNs : c.nsTab[Len(c.nsTab) - 2 * j + 1] = pfx

\* check that it's not a defined namespace, then bind; rv is the new nbNs
NsBind(c, nbNs, pfx, URL) ==
    IF NsDeclaredOnTag(c, nbNs, pfx) THEN [xmlErrAttributeDup(c) EXCEPT !.rv = nbNs]
    ELSE With([p \in {nsPush(c, pfx, URL)} |->
             [p EXCEPT !.rv = IF p.rv > 0 THEN nbNs + 1 ELSE nbNs]])

\* the attribute xmlns="URL"
DefaultNsDecl(c, URL, nbNs) ==
    LET c1 == IF URL = <<>> THEN c
              ELSE IF ~URIValid(URL) THEN xmlNsErr(c, "XML_WAR_NS_URI")
              ELSE IF ~URIHasScheme(URL) THEN xmlNsWarn(c, "XML_WAR_NS_URI_RELATIVE")
              ELSE c
    IN  IF URL # <<>> /\ URL = XML_XML_NAMESPACE
        THEN [xmlNsErr(c1, "XML_NS_ERR_XML_NAMESPACE") EXCEPT !.rv = nbNs]
        ELSE IF URL # <<>> /\ URL = XMLNS_NAMESPACE
        THEN [xmlNsErr(c1, "XML_NS_ERR_XML_NAMESPACE") EXCEPT !.rv = nbNs]
        ELSE NsBind(c1, nbNs, NULL, URL)

\* the attribute xmlns:attname="URL", binding the empty namespace name like
\* any other
PrefixedNsDecl_empty(c, attname, URL, nbNs) ==
    LET skip(x) == [x EXCEPT !.rv = nbNs]
        c1 == IF ~URIValid(URL) THEN xmlNsErr(c, "XML_WAR_NS_URI")
              ELSE IF c.pedantic # 0 /\ ~URIHasScheme(URL)
              THEN xmlNsWarn(c, "XML_WAR_NS_URI_RELATIVE")
              ELSE c
    IN  IF attname = str_xml
        THEN (IF URL # XML_XML_NAMESPACE
              THEN skip(xmlNsErr(c, "XML_NS_ERR_XML_NAMESPACE")) ELSE skip(c))
        ELSE IF URL = XML_XML_NAMESPACE THEN skip(xmlNsErr(c, "XML_NS_ERR_XML_NAMESPACE"))
        ELSE IF attname = str_xmlns THEN skip(xmlNsErr(c, "XML_NS_ERR_XML_NAMESPACE"))
        ELSE IF URL = XMLNS_NAMESPACE THEN skip(xmlNsErr(c, "XML_NS_ERR_XML_NAMESPACE"))
        ELSE NsBind(c1, nbNs, attname, URL)

\* the attribute xmlns:attname="URL"
PrefixedNsDecl(c, attname, URL, nbNs) ==
    LET skip(x) == [x EXCEPT !.rv = nbNs]
        c1 == IF ~URIValid(URL) THEN xmlNsErr(c, "XML_WAR_NS_URI")
              ELSE IF c.pedantic # 0 /\ ~URIHasScheme(URL)
              THEN xmlNsWarn(c, "XML_WAR_NS_URI_RELATIVE")
              ELSE c
    IN  IF attname = str_xml
        THEN (IF URL # XML_XML_NAMESPACE
              THEN skip(xmlNsErr(c, "XML_NS_ERR_XML_NAMESPACE")) ELSE skip(c))
        ELSE IF URL = XML_XML_NAMESPACE THEN skip(xmlNsErr(c, "XML_NS_ERR_XML_NAMESPACE"))
        ELSE IF attname = str_xmlns THEN skip(xmlNsErr(c, "XML_NS_ERR_XML_NAMESPACE"))
        ELSE IF URL = XMLNS_NAMESPACE THEN skip(xmlNsErr(c, "XML_NS_ERR_XML_NAMESPACE"))
        ELSE IF URL = <<>> THEN skip(xmlNsErr(c, "XML_NS_ERR_XML_NAMESPACE"))
        ELSE NsBind(c1, nbNs, attname, URL)

AtTagEnd(c) == RAW(c) = ">" \/ (RAW(c) = "/" /\ NXT(c, 1) = ">")

\* the attribute loop of xmlParseStartTag2; rv is [atts, nbNs]
RECURSIVE StartTagAttrs(_, _, _, _, _)
RECURSIVE StartTagNext(_, _, _, _, _, _, _)
StartTagAttrs(c, pref, elem, atts, nbNs) ==
    IF ~(~AtTagEnd(c) /\ IS_BYTE_CHAR(RAW(c)) /\ c.instate # "XML_PARSER_EOF")
    THEN [c EXCEPT !.rv = [atts |-> atts, nbNs |-> nbNs]]
    ELSE
    \* a.rv is attname, a.rprefix aprefix, a.rvalue attvalue
    With([a \in {xmlParseAttribute2(c, pref, elem)} |->
        IF a.rv # NULL /\ a.rvalue # NULL
        THEN IF a.rv = str_xmlns /\ a.rprefix = NULL
             THEN With([d \in {DefaultNsDecl(a, a.rvalue, nbNs)} |->
                      StartTagNext(d, pref, elem, atts, d.rv, FALSE, FALSE)])
             ELSE IF a.rprefix = str_xmlns
             THEN With([p \in {PrefixedNsDecl(a, a.rv, a.rvalue, nbNs)} |->
                      StartTagNext(p, pref, elem, atts, p.rv, FALSE, FALSE)])
             ELSE StartTagNext(a, pref, elem,
                               Append(atts, [name |-> a.rv, prefix |-> a.rprefix,
                                             URI |-> NULL, value |-> a.rvalue]),
                               nbNs, TRUE, FALSE)
        ELSE StartTagNext(a, pref, elem, atts, nbNs, TRUE,
                          a.cur = c.cur /\ a.rv = NULL /\ a.rvalue = NULL)])

\* the end of one turn of the loop: failed is TRUE at the label failed,
\* stuck when nothing was read
StartTagNext(c, pref, elem, atts, nbNs, failed, stuck) ==
    LET out(x) == [x EXCEPT !.rv = [atts |-> atts, nbNs |-> nbNs]]
        c1 == SKIP_BLANKS(c)
    IN  IF failed /\ c.instate = "XML_PARSER_EOF" THEN out(c)
        ELSE IF AtTagEnd(c) THEN out(c)
        ELSE IF ~IS_BLANK_CH(RAW(c)) THEN out(xmlFatalErrMsg(c, "XML_ERR_SPACE_REQUIRED"))
        ELSE IF failed /\ stuck /\ c1.cur = c.cur
        THEN out(xmlFatalErr(c1, "XML_ERR_INTERNAL_ERROR"))
        ELSE StartTagAttrs(c1, pref, elem, atts, nbNs)

\* an attribute redefined by identity that is reported like one redefined
\* by name
UniqueAttSpec_dup(c, samePrefix) == xmlErrAttributeDup(c)

\* [WFC: Unique Att Spec]: an earlier attribute of the tag has the same
\* local name and either the same prefix or the same namespace name
UniqueAttSpec(c, samePrefix) ==
    IF samePrefix THEN xmlErrAttributeDup(c)
    ELSE xmlNsErr(c, "XML_NS_ERR_ATTRIBUTE_REDEFINED")

\* the attributes checkings, attribute i onwards; rv is atts with the URIs
RECURSIVE StartTagCheck(_, _, _, _)
StartTagCheck(c, atts, i, localname) ==
    IF i > Len(atts) THEN [c EXCEPT !.rv = atts]
    ELSE
    LET at == atts[i]
        nsname == IF at.prefix # NULL THEN xmlGetNamespace(c, at.prefix) ELSE NULL
        c1 == IF at.prefix # NULL /\ nsname = NULL
              THEN xmlNsErr(c, "XML_NS_ERR_UNDEFINED_NAMESPACE") ELSE c
        atts1 == IF at.prefix # NULL THEN [atts EXCEPT ![i].URI = nsname] ELSE atts
        hits == {j \in 1..(i - 1) :
                    /\ atts1[j].name = at.name
                    /\ \/ atts1[j].prefix = at.prefix
                       \/ nsname # NULL /\ atts1[j].URI = nsname}
        j0 == Min(hits)
        c2 == IF hits = {} THEN c1
              ELSE UniqueAttSpec(c1, atts1[j0].prefix = at.prefix)
    IN  StartTagCheck(c2, atts1, i + 1, localname)

\* xmlHashLookup2(ctxt->attsDefault, localname, prefix): the defaults of the
\* element, a sequence of [attname, aprefix, value, external], empty when
\* the table has none
DefaultsOf(c, localname, prefix) ==
    LET hits == {k \in 1..Len(c.attsDefault) :
                    /\ c.attsDefault[k].name = localname
                    /\ c.attsDefault[k].prefix = prefix}
    IN  IF hits = {} THEN <<>> ELSE c.attsDefault[Min(hits)].defaults

\* the default xmlns="value"; rv is the new nbNs
DefaultNsDefault(c, defaults, i, nbNs) ==
    IF NsDeclaredOnTag(c, nbNs, NULL) THEN [c EXCEPT !.rv = nbNs]
    ELSE IF xmlGetNamespace(c, NULL) # defaults[i].value
    THEN With([p \in {nsPush(c, NULL, defaults[i].value)} |->
             [p EXCEPT !.rv = IF p.rv > 0 THEN nbNs + 1 ELSE nbNs]])
    ELSE [c EXCEPT !.rv = nbNs]

\* the default xmlns:attname="value"; rv is the new nbNs.  The binding in
\* scope is compared with values[2], the value of the first default of
\* the element
PrefixedNsDefault(c, defaults, i, nbNs) ==
    LET attname == defaults[i].attname
        nsname == xmlGetNamespace(c, attname)
        c1 == IF NsDeclaredOnTag(c, nbNs, attname) THEN [c EXCEPT !.rv = nbNs]
              ELSE IF nsname # defaults[1].value
              THEN With([p \in {nsPush(c, attname, defaults[i].value)} |->
                       [p EXCEPT !.rv = IF p.rv > 0 THEN nbNs + 1 ELSE nbNs]])
              ELSE [c EXCEPT !.rv = nbNs]
    IN  [c1 EXCEPT !.nsDefaulted =
             @ \cup {[i |-> i, attname |-> attname, value |-> defaults[i].value,
                      declared |-> NsDeclaredOnTag(c, nbNs, attname),
                      inscope |-> nsname,
                      pushed |-> c1.nsTab # c.nsTab]}]

\* a default that is no namespace declaration: added to atts unless the
\* tag has the attribute
AttrDefault(c, defaults, i, atts) ==
    LET d == defaults[i]
    IN  IF \E j \in 1..Len(atts) : atts[j].name = d.attname /\ atts[j].prefix = d.aprefix
        THEN atts
        ELSE Append(atts, [name |-> d.attname, prefix |-> d.aprefix,
                           URI |-> IF d.aprefix # NULL THEN xmlGetNamespace(c, d.aprefix)
                                   ELSE NULL,
                           value |-> d.value])

\* the attributes defaulting, default i onwards; rv is [atts, nbNs]
RECURSIVE StartTagDefaults(_, _, _, _, _)
StartTagDefaults(c, defaults, i, atts, nbNs) ==
    IF i > Len(defaults)
    THEN [c EXCEPT !.rv = [atts |-> atts, nbNs |-> nbNs]]
    ELSE IF defaults[i].attname = str_xmlns /\ defaults[i].aprefix = NULL
    THEN With([d \in {DefaultNsDefault(c, defaults, i, nbNs)} |->
             StartTagDefaults(d, defaults, i + 1, atts, d.rv)])
    ELSE IF defaults[i].aprefix = str_xmlns
    THEN With([p \in {PrefixedNsDefault(c, defaults, i, nbNs)} |->
             StartTagDefaults(p, defaults, i + 1, atts, p.rv)])
    ELSE With([atts1 \in {AttrDefault(c, defaults, i, atts)} |->
             StartTagDefaults([c EXCEPT !.unmodelled =
                                   @ \/ (/\ Len(atts1) > Len(atts)
                                         /\ c.standalone = 1
                                         /\ defaults[i].external # NULL)],
                              defaults, i + 1, atts1, nbNs)])

\* rv is the local name (NULL on failure), rprefix the prefix, rURI the
\* namespace name of the element, rtlen the length of the qualified name
xmlParseStartTag2(c) ==
    IF RAW(c) # "<" THEN [c EXCEPT !.rv = NULL]
    ELSE
    \* c1.rv is localname, c1.rprefix prefix
    With([c1 \in {xmlParseQName(NEXT1(c))} |->
        IF c1.rv = NULL
        THEN [xmlFatalErrMsg(c1, "XML_ERR_NAME_REQUIRED") EXCEPT !.rv = NULL]
        ELSE
        With([c0 \in {StartTagAttrs(SKIP_BLANKS(c1), c1.rprefix, c1.rv, <<>>, 0)} |->
        With([c2 \in {StartTagDefaults(c0, DefaultsOf(c0, c1.rv, c1.rprefix), 1,
                                       c0.rv.atts, c0.rv.nbNs)} |->
        With([c3 \in {StartTagCheck(c2, c2.rv.atts, 1, c1.rv)} |->
            LET nbNs == c2.rv.nbNs
                nsname == xmlGetNamespace(c3, c1.rprefix)
                c4 == IF c1.rprefix # NULL /\ nsname = NULL
                      THEN xmlNsErr(c3, "XML_NS_ERR_UNDEFINED_NAMESPACE") ELSE c3
                ev == [kind |-> "startElementNs", localname |-> c1.rv,
                       prefix |-> c1.rprefix, URI |-> nsname,
                       namespaces |-> SubSeq(c4.nsTab, Len(c4.nsTab) - 2 * nbNs + 1,
                                             Len(c4.nsTab)),
                       attributes |-> c3.rv]
            IN  [(IF c4.disableSAX = 0 THEN Deliver(c4, ev) ELSE c4)
                    EXCEPT !.rv = c1.rv, !.rprefix = c1.rprefix, !.rURI = nsname,
                           !.rtlen = c1.cur - (c.cur + 1)]])])])])

-----------------------------------------------------------------------------
(* End tags *)

CtxtName(c) == IF Len(c.nameTab) > 0 THEN c.nameTab[Len(c.nameTab)] ELSE NULL

\* xmlStrncmp(ctxt->input->cur, ctxt->name, tlen) == 0
StrncmpName(c, tlen) ==
    LET name == CtxtName(c)
        n == IF tlen <= Len(name) THEN tlen ELSE Len(name) + 1
    IN  \A k \in 1..n : At(c, c.cur + k - 1) = (IF k <= Len(name) THEN name[k] ELSE NUL)

EndElementNs(c, localname, prefix, URI) ==
    IF c.disableSAX = 0
    THEN Deliver(c, [kind |-> "endElementNs", localname |-> localname,
                     prefix |-> prefix, URI |-> URI])
    ELSE c

\* the label done of xmlParseEndTag2
EndTagDone(c, prefix, URI, nsNr) ==
    LET c1 == spacePop(EndElementNs(c, CtxtName(c), prefix, URI))
    IN  IF nsNr # 0 THEN nsPop(c1, nsNr) ELSE c1

xmlParseEndTag2(c, prefix, URI, nsNr, tlen) ==
    IF RAW(c) # "<" \/ NXT(c, 1) # "/" THEN xmlFatalErr(c, "XML_ERR_LTSLASH_REQUIRED")
    ELSE
    LET c1 == SKIP(c, 2)
        fast == tlen > 0 /\ StrncmpName(c1, tlen)
    IN  IF fast /\ At(c1, c1.cur + tlen) = ">"
        THEN EndTagDone([c1 EXCEPT !.cur = c1.cur + tlen + 1], prefix, URI, nsNr)
        ELSE
        \* c2.rv is name
        With([c2 \in {IF fast
                      THEN [c1 EXCEPT !.cur = c1.cur + tlen, !.rv = MATCHED,
                                      !.unmodelled = c1.unmodelled
                                                     \/ tlen > Len(CtxtName(c1))]
                      ELSE IF prefix # NULL
                      THEN xmlParseQNameAndCompare(c1, CtxtName(c1), prefix)
                      ELSE xmlParseNameAndCompare(c1, CtxtName(c1))} |->
            IF c2.instate = "XML_PARSER_EOF" THEN c2
            ELSE
            With([c3 \in {SKIP_BLANKS(c2)} |->
                LET c4 == IF RAW(c3) # ">" THEN xmlFatalErr(c3, "XML_ERR_GT_REQUIRED")
                          ELSE NEXT1(c3)
                IN  EndTagDone(IF c2.rv # MATCHED
                               THEN xmlFatalErrMsgStrIntStr(c4, "XML_ERR_TAG_NAME_MISMATCH")
                               ELSE c4,
                               prefix, URI, nsNr)])])

-----------------------------------------------------------------------------
(* Character data *)

\* test_char_data: 0x9 and 0x20..0x7F except '<', '&' and ']'
test_char_data(ch) == (IsPrintable(ch) \/ ch = "\t") /\ ch \notin {"<", "&", "]"}

IsSpaceOrLF(ch) == ch = " " \/ ch = "\n"

\* the scan at get_more: data characters, line feeds, and every ']' that
\* does not start "]]>"
CharDataEnd(c, in) ==
    Min({j \in in..(Len(c.buf) + 1) :
            LET ch == At(c, j)
            IN  ~(test_char_data(ch) \/ ch = "\n"
                  \/ (ch = "]" /\ ~(At(c, j + 1) = "]" /\ At(c, j + 2) = ">")))})

\* on the input domain the fallback is entered at the end of the data only
xmlParseCharDataComplex(c) ==
    LET ch == CUR_CHAR(c)
    IN  IF ch \in {"<", "&"} \/ ~IS_CHAR(ch) THEN c
        ELSE [c EXCEPT !.unmodelled = TRUE]

\* cdata = 0.  The accelerated path calls the characters callback without
\* looking at disableSAX.
xmlParseCharData(c) ==
    LET in1 == ScanWhile(c, c.cur, IsSpaceOrLF)
        in2 == CharDataEnd(c, in1)
        d == Characters(c, Slice(c, c.cur, in2))
        c1 == IF in2 > c.cur THEN d ELSE c
        c2 == [c1 EXCEPT !.cur = in2]
    IN  IF At(c, in1) = "<"
        THEN (IF in1 > c.cur
              THEN Characters([c EXCEPT !.cur = in1], Slice(c, c.cur, in1))
              ELSE c)
        ELSE IF At(c, in2) = "]"
        THEN [xmlFatalErr(c, "XML_ERR_MISPLACED_CDATA_END") EXCEPT !.cur = in2]
        ELSE IF in2 > c.cur /\ c1.instate # "XML_PARSER_CONTENT" THEN c1
        ELSE IF At(c, in2) \in {"<", "&"} THEN c2
        ELSE IF c2.instate = "XML_PARSER_EOF" THEN c2
        ELSE xmlParseCharDataComplex(c2)

-----------------------------------------------------------------------------
(* Comments and processing instructions *)

Comment(c, data) ==
    IF c.disableSAX = 0 THEN Deliver(c, [kind |-> "comment", data |-> data]) ELSE c

\* on the input domain the fallback is entered at the end of the data only
xmlParseCommentComplex(c) ==
    IF CUR_CHAR(c) = NUL THEN xmlFatalErrMsgStr(c, "XML_ERR_COMMENT_NOT_FINISHED")
    ELSE [c EXCEPT !.unmodelled = TRUE]

\* (*in > '-' && *in <= 0x7F) || (*in >= 0x20 && *in < '-') || *in == 0x09,
\* and the line feeds skipped around it
IsCommentFast(ch) == ((IsPrintable(ch) \/ ch = "\t") /\ ch # "-") \/ ch = "\n"

\* the accelerated loop of xmlParseComment: the bytes from c.cur are not
\* yet saved, in is the scan position, buf the bytes saved so far
RECURSIVE CommentFast(_, _, _, _)
CommentFast(c, in, buf, state) ==
    LET in1 == ScanWhile(c, in, IsCommentFast)
        b1 == buf \o Slice(c, c.cur, in1)
        c1 == [c EXCEPT !.cur = in1]
        d == Comment(SKIP(c1, 3), b1)
    IN  IF c1.instate = "XML_PARSER_EOF" THEN c1
        ELSE IF At(c, in1) = "-" /\ At(c, in1 + 1) = "-" /\ At(c, in1 + 2) = ">"
        THEN (IF d.instate # "XML_PARSER_EOF" THEN SetState(d, state) ELSE d)
        ELSE IF At(c, in1) = "-" /\ At(c, in1 + 1) = "-"
        THEN CommentFast(xmlFatalErrMsgStr(c1, "XML_ERR_HYPHEN_IN_COMMENT"), in1 + 2, b1, state)
        ELSE IF At(c, in1) = "-" THEN CommentFast(c1, in1 + 1, b1, state)
        ELSE SetState(xmlParseCommentComplex(c1), state)

xmlParseComment(c) ==
    IF ~Lit(c, c.cur, <<"<", "!", "-", "-">>) THEN c
    ELSE CommentFast(SKIP(SetState(c, "XML_PARSER_COMMENT"), 4), c.cur + 4, <<>>, c.instate)

xmlW3CPIs == {<<"x", "m", "l", "-", "s", "t", "y", "l", "e", "s", "h", "e", "e", "t">>,
              <<"x", "m", "l", "-", "m", "o", "d", "e", "l">>}

xmlParsePITarget(c) ==
    LET c1 == xmlParseName(c)
        name == c1.rv
        isXml == name # NULL /\ Len(name) >= 3 /\ name[1] \in {"x", "X"}
                 /\ name[2] \in {"m", "M"} /\ name[3] \in {"l", "L"}
        c2 == IF isXml /\ name \notin xmlW3CPIs
              THEN xmlWarningMsg(c1, "XML_ERR_RESERVED_XML_NAME") ELSE c1
        c3 == IF name # NULL /\ ":" \in {name[i] : i \in 1..Len(name)}
              THEN xmlNsErr(c2, "XML_NS_ERR_COLON") ELSE c2
    IN  IF isXml /\ Len(name) = 3
        THEN [xmlFatalErr(c1, "XML_ERR_RESERVED_XML_NAME") EXCEPT !.rv = name]
        ELSE IF isXml /\ name \in xmlW3CPIs THEN c1
        ELSE [c3 EXCEPT !.rv = name]

\* first index j >= i with '?' '>' at j, or the end of the data
PIEnd(c, i) ==
    Min({j \in i..(Len(c.buf) + 1) :
            ~IS_CHAR(At(c, j)) \/ (At(c, j) = "?" /\ At(c, j + 1) = ">")})

ProcessingInstruction(c, target, data) ==
    IF c.disableSAX = 0
    THEN Deliver(c, [kind |-> "processingInstruction", target |-> target, data |-> data])
    ELSE c

xmlParsePI(c) ==
    IF ~(RAW(c) = "<" /\ NXT(c, 1) = "?") THEN c
    ELSE
    LET state == c.instate
        restore(x) == IF x.instate # "XML_PARSER_EOF" THEN SetState(x, state) ELSE x
    IN  \* c1.rv is target
        With([c1 \in {xmlParsePITarget(SKIP(SetState(c, "XML_PARSER_PI"), 2))} |->
            IF c1.rv = NULL THEN restore(xmlFatalErr(c1, "XML_ERR_PI_NOT_STARTED"))
            ELSE IF RAW(c1) = "?" /\ NXT(c1, 1) = ">"
            THEN restore(ProcessingInstruction(SKIP(c1, 2), c1.rv, NULL))
            ELSE
            With([c3 \in {SKIP_BLANKS(IF ~IS_BLANK_CH(RAW(c1))
                                      THEN xmlFatalErrMsgStr(c1, "XML_ERR_SPACE_REQUIRED")
                                      ELSE c1)} |->
                LET end == PIEnd(c3, c3.cur)
                    c4 == [c3 EXCEPT !.cur = end]
                IN  IF At(c4, end) # "?"
                    THEN restore(xmlFatalErrMsgStr(c4, "XML_ERR_PI_NOT_FINISHED"))
                    ELSE restore(ProcessingInstruction(SKIP(c4, 2), c1.rv,
                                                       Slice(c3, c3.cur, end)))])])

-----------------------------------------------------------------------------
(* The blocking driver *)

CDataBlock(c, data) ==
    IF c.disableSAX = 0 THEN Deliver(c, [kind |-> "cdataBlock", data |-> data]) ELSE c

CDStart == <<"<", "!", "[", "C", "D", "A", "T", "A", "[">>

\* the position where the three-character window r, s, cur of xmlParseCDSect
\* stops: cur is not a character, or the window holds "]]>"
CDSectEnd(c, p) ==
    Min({k \in (p + 2)..(Len(c.buf) + 1) :
            ~IS_CHAR(At(c, k))
            \/ (At(c, k - 2) = "]" /\ At(c, k - 1) = "]" /\ At(c, k) = ">")})

xmlParseCDSect(c) ==
    IF ~Lit(c, c.cur, CDStart) THEN c
    ELSE
    LET c1 == SetState(SKIP(c, 9), "XML_PARSER_CDATA_SECTION")
        p == c1.cur
        notFinished(x) == SetState(xmlFatalErr(x, "XML_ERR_CDATA_NOT_FINISHED"),
                                   "XML_PARSER_CONTENT")
        k == CDSectEnd(c1, p)
        c2 == [c1 EXCEPT !.cur = k]
    IN  IF ~IS_CHAR(At(c1, p)) THEN notFinished(c1)
        ELSE IF ~IS_CHAR(At(c1, p + 1)) THEN notFinished([c1 EXCEPT !.cur = p + 1])
        ELSE IF At(c1, k) # ">"
        THEN xmlFatalErrMsgStr(SetState(c2, "XML_PARSER_CONTENT"), "XML_ERR_CDATA_NOT_FINISHED")
        ELSE CDataBlock(SetState([c1 EXCEPT !.cur = k + 1], "XML_PARSER_CONTENT"),
                        Slice(c1, p, k - 2))

RECURSIVE xmlParseElement(_)

\* one turn of the loop of xmlParseContent, without the progress test
ContentItem(c) ==
    IF RAW(c) = "<" /\ NXT(c, 1) = "?" THEN xmlParsePI(c)
    ELSE IF Lit(c, c.cur, CDStart) THEN xmlParseCDSect(c)
    ELSE IF Lit(c, c.cur, <<"<", "!", "-", "-">>)
    THEN SetState(xmlParseComment(c), "XML_PARSER_CONTENT")
    ELSE IF RAW(c) = "<" THEN xmlParseElement(c)
    ELSE IF RAW(c) = "&" THEN xmlParseReference(c)
    ELSE xmlParseCharData(c)

xmlParseContent(c) ==
    IF ContentEnded(c) THEN c ELSE xmlParseContent(ContentTest(c, ContentItem(c)))

\* ghost: the depths of the name, namespace and preserve-whitespace stacks
Depths(c) == <<Len(c.nameTab), Len(c.nsTab), Len(c.spaceTab)>>

\* ghost: the way an element was left, with the depths before its start tag
\* and the depths it is left with
TagLogged(c, kind, before) ==
    [c EXCEPT !.tagLog = @ \cup {[kind |-> kind, before |-> before, after |-> Depths(c)]}]

\* end of parsing of this node, the namespaces of the tag forgotten
ElementPop_names(c, nsNr) == spacePop(namePop(c))

\* end of parsing of this node
ElementPop(c, nsNr) ==
    LET c1 == spacePop(namePop(c))
    IN  IF nsNr # Len(c1.nsTab) THEN nsPop(c1, Len(c1.nsTab) - nsNr) ELSE c1

xmlParseElement(c) ==
    IF Len(c.nameTab) > xmlParserMaxDepth /\ ~Huge(c)
    THEN SetState(xmlFatalErrMsgInt(c, "XML_ERR_INTERNAL_ERROR"), "XML_PARSER_EOF")
    ELSE
    LET nsNr == Len(c.nsTab)
    IN  \* c2.rv is name, c2.rprefix prefix, c2.rURI URI, c2.rtlen tlen
        With([c2 \in {xmlParseStartTag2(
                        spacePush(c, IF Len(c.spaceTab) = 0 \/ SpaceTop(c) = -2
                                     THEN -1 ELSE SpaceTop(c)))} |->
            IF c2.instate = "XML_PARSER_EOF" THEN TagLogged(c2, "abortStartTag", Depths(c))
            ELSE IF c2.rv = NULL THEN TagLogged(spacePop(c2), "malformed", Depths(c))
            ELSE
            With([c3 \in {namePush(c2, c2.rv)} |->
                IF RAW(c3) = "/" /\ NXT(c3, 1) = ">"
                THEN TagLogged(ElementPop(EndElementNs(SKIP(c3, 2), c2.rv, c2.rprefix,
                                                       c2.rURI), nsNr),
                               "selfClosing", Depths(c))
                ELSE IF RAW(c3) # ">"
                THEN TagLogged(ElementPop(nodePop(xmlFatalErrMsgStrIntStr(
                                                      c3, "XML_ERR_GT_REQUIRED")), nsNr),
                               "missingGt", Depths(c))
                ELSE
                With([c4 \in {xmlParseContent(NEXT1(c3))} |->
                    IF c4.instate = "XML_PARSER_EOF"
                    THEN TagLogged(c4, "abortContent", Depths(c))
                    ELSE IF ~IS_BYTE_CHAR(RAW(c4))
                    THEN TagLogged(ElementPop(nodePop(xmlFatalErrMsgStrIntStr(
                                                  c4, "XML_ERR_TAG_NOT_FINISHED")), nsNr),
                                   "premature", Depths(c))
                    ELSE namePop(xmlParseEndTag2(c4, c2.rprefix, c2.rURI,
                                                 Len(c4.nsTab) - nsNr, c2.rtlen))])])])

RECURSIVE xmlParseMisc(_)
xmlParseMisc(c) ==
    IF c.instate = "XML_PARSER_EOF" THEN c
    ELSE IF RAW(c) = "<" /\ NXT(c, 1) = "?" THEN xmlParseMisc(xmlParsePI(c))
    ELSE IF IS_BLANK_CH(RAW(c)) THEN xmlParseMisc(NEXT(c))
    ELSE IF Lit(c, c.cur, <<"<", "!", "-", "-">>) THEN xmlParseMisc(xmlParseComment(c))
    ELSE c

\* rv is the literal read (also when its closing quote is missing), or NULL
xmlParseSystemLiteral(c) ==
    IF RAW(c) \notin {"\"", "'"}
    THEN [xmlFatalErr(c, "XML_ERR_LITERAL_NOT_STARTED") EXCEPT !.rv = NULL]
    ELSE
    LET stop == RAW(c)
        state == c.instate
        c1 == SetState(NEXT(c), "XML_PARSER_SYSTEM_LITERAL")
        notLit(ch) == IS_CHAR(ch) /\ ch # stop
        end == ScanWhile(c1, c1.cur, notLit)
        c2 == SetState([c1 EXCEPT !.cur = end], state)
        c3 == IF ~IS_CHAR(At(c1, end)) THEN xmlFatalErr(c2, "XML_ERR_LITERAL_NOT_FINISHED")
              ELSE NEXT(c2)
    IN  [c3 EXCEPT !.rv = Slice(c1, c1.cur, end)]

\* strict = 1; rv is the system identifier, rvalue the public identifier.
\* Only SYSTEM identifiers are on the input domain.
xmlParseExternalID(c) ==
    IF Lit(c, c.cur, <<"S", "Y", "S", "T", "E", "M">>)
    THEN LET c1 == SKIP(c, 6)
         IN  With([c3 \in {xmlParseSystemLiteral(SKIP_BLANKS(
                               IF ~IS_BLANK_CH(RAW(c1))
                               THEN xmlFatalErrMsg(c1, "XML_ERR_SPACE_REQUIRED")
                               ELSE c1))} |->
                 [(IF c3.rv = NULL THEN xmlFatalErr(c3, "XML_ERR_URI_REQUIRED") ELSE c3)
                     EXCEPT !.rv = c3.rv, !.rvalue = NULL]])
    ELSE IF Lit(c, c.cur, <<"P", "U", "B", "L", "I", "C">>)
    THEN [c EXCEPT !.rv = NULL, !.rvalue = NULL, !.unmodelled = TRUE]
    ELSE [c EXCEPT !.rv = NULL, !.rvalue = NULL]

DocType == <<"<", "!", "D", "O", "C", "T", "Y", "P", "E">>

xmlParseDocTypeDecl(c) ==
    \* c1.rv is name
    With([c1 \in {xmlParseName(SKIP_BLANKS(SKIP(c, 9)))} |->
    \* c3.rv is URI, c3.rvalue ExternalID
    With([c3 \in {xmlParseExternalID(SKIP_BLANKS(
                      [(IF c1.rv = NULL THEN xmlFatalErrMsg(c1, "XML_ERR_NAME_REQUIRED")
                        ELSE c1) EXCEPT !.intSubName = c1.rv]))} |->
    With([c4 \in {SKIP_BLANKS([c3 EXCEPT !.hasExternalSubset =
                                             IF c3.rv # NULL \/ c3.rvalue # NULL THEN 1 ELSE @,
                                         !.extSubURI = c3.rv,
                                         !.extSubSystem = c3.rvalue])} |->
    With([c5 \in {IF c4.disableSAX = 0
                  THEN Deliver(c4, [kind |-> "internalSubset", name |-> c1.rv,
                                    ExternalID |-> c3.rvalue, SystemID |-> c3.rv])
                  ELSE c4} |->
        IF c5.instate = "XML_PARSER_EOF" THEN c5
        ELSE IF RAW(c5) = "[" THEN c5
        ELSE NEXT(IF RAW(c5) # ">" THEN xmlFatalErr(c5, "XML_ERR_DOCTYPE_NOT_FINISHED")
                  ELSE c5)])])])])

ExternalSubset(c) ==
    IF c.disableSAX = 0
    THEN Deliver(c, [kind |-> "externalSubset", name |-> c.intSubName,
                     ExternalID |-> c.extSubSystem, SystemID |-> c.extSubURI])
    ELSE c

StartDocument(c) ==
    IF c.disableSAX = 0 THEN Deliver(c, [kind |-> "startDocument"]) ELSE c

\* the endDocument callback is made whatever disableSAX is
EndDocument(c) == Deliver(c, [kind |-> "endDocument"])

Returned(c, r) == [c EXCEPT !.rv = r]

\* the part of xmlParseDocument after the prolog: the root element, the
\* epilog, endDocument and the result
DocumentBody(c) ==
    With([c2 \in {EndDocument(
                    IF RAW(c) # "<" THEN xmlFatalErrMsg(c, "XML_ERR_DOCUMENT_EMPTY")
                    ELSE With([e \in {xmlParseMisc(SetState(
                                          xmlParseElement(SetState(c, "XML_PARSER_CONTENT")),
                                          "XML_PARSER_EPILOG"))} |->
                           SetState(IF RAW(e) # NUL
                                    THEN xmlFatalErr(e, "XML_ERR_DOCUMENT_END") ELSE e,
                                    "XML_PARSER_EOF")]))} |->
        IF c2.wellFormed = 0 THEN Returned([c2 EXCEPT !.valid = 0], "-1")
        ELSE Returned(c2, "0")])

\* xmlSkipBlankChars in the state XML_PARSER_DTD; a parameter entity
\* reference is outside the input domain
SkipBlanksDTD(c) ==
    With([c1 \in {xmlSkipBlankChars(c)} |->
        IF RAW(c1) = "%" THEN [c1 EXCEPT !.unmodelled = TRUE] ELSE c1])

\* the subset between '[' and ']' holds blanks only in the input domain; a
\* markup declaration is outside it. Any other character makes no progress
\* in the loop, which is left with XML_ERR_INTERNAL_ERROR
xmlParseInternalSubset(c) ==
    With([c3 \in {IF RAW(c) # "[" THEN c
                  ELSE With([c1 \in {SkipBlanksDTD(NEXT(SetState(c, "XML_PARSER_DTD")))} |->
                           IF c1.unmodelled THEN c1
                           ELSE IF RAW(c1) = "<" THEN [c1 EXCEPT !.unmodelled = TRUE]
                           ELSE IF RAW(c1) = "]" THEN SkipBlanksDTD(NEXT(c1))
                           ELSE xmlFatalErr(c1, "XML_ERR_INTERNAL_ERROR")])} |->
        NEXT(IF RAW(c3) # ">" THEN xmlFatalErr(c3, "XML_ERR_DOCTYPE_NOT_FINISHED") ELSE c3)])

DocumentDocType(c) ==
    With([c1 \in {xmlParseDocTypeDecl([c EXCEPT !.inSubset = 1])} |->
    With([c2 \in {IF RAW(c1) = "["
                  THEN xmlParseInternalSubset(SetState(c1, "XML_PARSER_DTD")) ELSE c1} |->
        IF RAW(c1) = "[" /\ c2.instate = "XML_PARSER_EOF" THEN Returned(c2, "-1")
        ELSE
        With([c3 \in {ExternalSubset([c2 EXCEPT !.inSubset = 2])} |->
            IF c3.instate = "XML_PARSER_EOF" THEN Returned(c3, "-1")
            ELSE DocumentBody(xmlParseMisc(SetState([c3 EXCEPT !.inSubset = 0],
                                                    "XML_PARSER_PROLOG")))])])])

\* the XML declaration is outside the input domain
xmlParseDocument(c) ==
    IF c.instate = "XML_PARSER_EOF" THEN Returned(c, "-1")
    ELSE
    LET c1 == IF RAW(c) = NUL THEN xmlFatalErr(c, "XML_ERR_DOCUMENT_EMPTY") ELSE c
        c2 == IF Lit(c1, c1.cur, <<"<", "?", "x", "m", "l">>) /\ IS_BLANK_CH(NXT(c1, 5))
              THEN [c1 EXCEPT !.unmodelled = TRUE] ELSE c1
    IN  With([c3 \in {StartDocument(c2)} |->
            IF c3.instate = "XML_PARSER_EOF" THEN Returned(c3, "-1")
            ELSE With([c4 \in {xmlParseMisc(c3)} |->
                     IF Lit(c4, c4.cur, DocType) THEN DocumentDocType(c4)
                     ELSE DocumentBody(c4)])])

-----------------------------------------------------------------------------
(* The push driver: looking ahead in the buffer *)

\* Offsets are counted from the start of the buffer as in the source (the
\* byte at offset b is At(c, b + 1)); next and third are NUL when absent.
\* ghost: the remembered position was left standing where the code has
\* just set it to zero
MemoZero(c) == [c EXCEPT !.memoKept = @ \/ c.checkIndex # 0]

\* rv is the distance from the read position to the sequence, or -1.
\* a lookup that reports the sequence found at the read position whatever
\* the buffer holds
xmlParseLookupSequence_found(c, first, next, third) ==
    [c EXCEPT !.checkIndex = 0, !.rv = 0]

xmlParseLookupSequence(c, first, next, third) ==
    LET cur == c.cur - 1
        base == IF c.checkIndex > cur THEN c.checkIndex ELSE cur
        len == IF third # NUL THEN Len(c.buf) - 2
               ELSE IF next # NUL THEN Len(c.buf) - 1 ELSE Len(c.buf)
        seqAt(b) == /\ At(c, b + 1) = first
                    /\ (third # NUL => At(c, b + 2) = next /\ At(c, b + 3) = third)
                    /\ (third = NUL /\ next # NUL => At(c, b + 2) = next)
        hits == {b \in base..(len - 1) : seqAt(b)}
        \* ghost: the sequence lies between the read position and the
        \* remembered position, so a search from the read position answers
        \* with another offset
        skipped == \E b \in cur..(Min({base, len}) - 1) : seqAt(b)
    IN  IF hits # {}
        THEN MemoZero([c EXCEPT !.checkIndex = 0, !.rv = Min(hits) - cur,
                                !.memoSkipped = @ \/ skipped])
        ELSE [c EXCEPT !.checkIndex = Max({base, len}), !.rv = -1,
                       !.memoSkipped = @ \/ skipped]

\* the scan of xmlParseGetLasts for a '>' after the last '<', jumping over
\* what looks like quoted text; the result is Len(c.buf) + 1 when none
RECURSIVE LastsScan(_, _)
LastsScan(c, tmp) ==
    LET end == Len(c.buf) + 1
        ch == At(c, tmp)
        notQuote(x) == x # ch /\ x # NUL
        q == ScanWhile(c, tmp + 1, notQuote)
    IN  IF tmp >= end \/ ch = ">" THEN Min({tmp, end})
        ELSE IF ch \in {"'", "\""} THEN LastsScan(c, IF q < end THEN q + 1 ELSE q)
        ELSE LastsScan(c, tmp + 1)

\* lastlt and lastgt are positions in the buffer, 0 for a null pointer
xmlParseGetLasts(c) ==
    LET lts == {i \in 1..Len(c.buf) : c.buf[i] = "<"}
        lt == Max(lts)
        gt == LastsScan(c, lt + 1)
        gts == {i \in 1..(lt - 1) : c.buf[i] = ">"}
    IN  IF c.progressive = "0" \/ lts = {} THEN [c EXCEPT !.lastlt = 0, !.lastgt = 0]
        ELSE [c EXCEPT !.lastlt = lt,
                       !.lastgt = IF gt <= Len(c.buf) THEN gt
                                  ELSE IF gts # {} THEN Max(gts) ELSE 0]

\* every byte of the input domain is a one-byte character that may stand in
\* a CDATA section, so the whole block passes
xmlCheckCdataPush(c, len) == IF len <= 0 THEN 0 ELSE len

xmlParseCheckTransition(c, chunk) ==
    LET do_find_rangl == \/ c.instate \in {"XML_PARSER_START_TAG", "XML_PARSER_CDATA_SECTION",
                                           "XML_PARSER_END_TAG", "XML_PARSER_DTD"}
                         \/ c.progressive \in {"XML_PARSER_COMMENT", "XML_PARSER_PI",
                                               "XML_PARSER_DTD"}
    IN  ~do_find_rangl \/ (\E i \in 1..Len(chunk) : chunk[i] = ">")

-----------------------------------------------------------------------------
(* The push driver: one turn of the loop of xmlParseTryOrFinish per state. *)
(* The field again tells whether the turn ended with break (the loop goes  *)
(* on) or with goto done or return.                                        *)

Again(c) == [c EXCEPT !.again = TRUE]

Done(c) == [c EXCEPT !.again = FALSE]

\* (!terminate) && (xmlParseLookupSequence(...) < 0): the lookup is not made
\* on the final chunk
LookupUnlessFinal(c, terminate, first, next, third) ==
    IF terminate THEN [c EXCEPT !.rv = 0] ELSE xmlParseLookupSequence(c, first, next, third)

\* case XML_PARSER_START
TryStart(c, terminate) ==
    LET l == LookupUnlessFinal(c, terminate, "?", ">", NUL)
        started(x) == Again(SetState(StartDocument(x), "XML_PARSER_MISC"))
    IN  IF c.charset = "XML_CHAR_ENCODING_NONE"
        THEN (IF Avail(c) < 4 THEN Done(c)
              ELSE Again([c EXCEPT !.charset = "XML_CHAR_ENCODING_UTF8"]))
        ELSE IF Avail(c) < 2 THEN Done(c)
        ELSE IF RAW(c) = "<" /\ NXT(c, 1) = "?"
        THEN (IF Avail(c) < 5 THEN Done(c)
              ELSE IF l.rv < 0 THEN Done(l)
              ELSE IF Lit(l, l.cur + 2, <<"x", "m", "l">>) /\ IS_BLANK_CH(NXT(l, 5))
              THEN Done([l EXCEPT !.unmodelled = TRUE])
              ELSE started(l))
        ELSE started(c)

\* ghost: the driver goes on to parse the tag at the read position of c.
\* gt: the buffer holds a '>' after the read position; lone: it holds no
\* '<' after the one at the read position; closed: it holds the '>' that
\* ends the tag, the first one after the read position outside quotes
Begun(c, terminate, kind) ==
    IF terminate THEN c
    ELSE [c EXCEPT !.begun = @ \cup
            {[kind |-> kind,
              gt |-> \E i \in (c.cur + 1)..Len(c.buf) : c.buf[i] = ">",
              lone |-> \A i \in (c.cur + 1)..Len(c.buf) : c.buf[i] # "<",
              closed |-> LastsScan(c, c.cur + 1) <= Len(c.buf)]}]

\* a test that never waits for the end of the tag
TagIncomplete_never(c, terminate) == [c EXCEPT !.rv = 0]

\* if not on the final chunk, is the end of the tag at the read position
\* not yet in the buffer
TagIncomplete(c, terminate) ==
    IF terminate THEN [c EXCEPT !.rv = 0]
    ELSE IF c.progressive # "0"
    THEN [c EXCEPT !.rv = IF c.lastgt = 0 \/ c.cur >= c.lastgt THEN -1 ELSE 0]
    ELSE xmlParseLookupSequence(c, ">", NUL, NUL)

\* case XML_PARSER_START_TAG
TryStartTag(c, terminate) ==
    IF Avail(c) < 2 THEN Done(c)
    ELSE IF RAW(c) # "<"
    THEN Done(EndDocument(SetState(xmlFatalErr(c, "XML_ERR_DOCUMENT_EMPTY"),
                                   "XML_PARSER_EOF")))
    ELSE
    LET nsNr == Len(c.nsTab)
    IN  With([w \in {TagIncomplete(c, terminate)} |->
            IF w.rv < 0 THEN Done(w)
            ELSE
            \* c2.rv is name, c2.rprefix prefix, c2.rURI URI
            With([c2 \in {xmlParseStartTag2(
                            spacePush(Begun(w, terminate, "start"),
                                      IF Len(w.spaceTab) = 0 \/ SpaceTop(w) = -2
                                      THEN -1 ELSE SpaceTop(w)))} |->
                IF c2.instate = "XML_PARSER_EOF"
                THEN Done(TagLogged(c2, "abortStartTag", Depths(c)))
                ELSE IF c2.rv = NULL
                THEN Done(EndDocument(SetState(TagLogged(spacePop(c2), "malformed",
                                                         Depths(c)),
                                               "XML_PARSER_EOF")))
                ELSE IF RAW(c2) = "/" /\ NXT(c2, 1) = ">"
                THEN With([e2 \in {EndElementNs(SKIP(c2, 2), c2.rv, c2.rprefix,
                                                c2.rURI)} |->
                         LET e3 == IF Len(e2.nsTab) - nsNr > 0
                                   THEN nsPop(e2, Len(e2.nsTab) - nsNr) ELSE e2
                             e4 == spacePop(e3)
                         IN  IF e3.instate = "XML_PARSER_EOF"
                             THEN Done(TagLogged(e3, "selfClosing", Depths(c)))
                             ELSE Again([SetState(TagLogged(e4, "selfClosing", Depths(c)),
                                                  IF Len(e4.nameTab) = 0
                                                  THEN "XML_PARSER_EPILOG"
                                                  ELSE "XML_PARSER_CONTENT")
                                         EXCEPT !.progressive = "1"])])
                ELSE IF RAW(c2) = ">"
                THEN Again([SetState(nameNsPush(NEXT(c2), c2.rv, c2.rprefix, c2.rURI,
                                                Len(c2.nsTab) - nsNr),
                                     "XML_PARSER_CONTENT")
                            EXCEPT !.progressive = "1"])
                ELSE Again([SetState(
                              TagLogged(
                                nameNsPush(spacePop(nodePop(xmlFatalErrMsgStr(
                                               c2, "XML_ERR_GT_REQUIRED"))),
                                           c2.rv, c2.rprefix, c2.rURI, Len(c2.nsTab) - nsNr),
                                "missingGt", Depths(c)),
                              "XML_PARSER_CONTENT")
                            EXCEPT !.progressive = "1"])])])

\* case XML_PARSER_END_TAG, going back to XML_PARSER_MISC after the end tag
\* of the root
TryEndTag_misc(c, terminate) ==
    IF Avail(c) < 2 THEN Done(c)
    ELSE
    With([w \in {TagIncomplete(c, terminate)} |->
        IF w.rv < 0 THEN Done(w)
        ELSE IF Len(w.pushTab) = 0 THEN Done([w EXCEPT !.unmodelled = TRUE])
        ELSE
        LET top == w.pushTab[Len(w.pushTab)]
        IN  With([c1 \in {nameNsPop(xmlParseEndTag2(Begun(w, terminate, "end"),
                                                    top.prefix, top.URI,
                                                    top.nsNr, 0))} |->
                IF c1.instate = "XML_PARSER_EOF" THEN Again(c1)
                ELSE Again(SetState(c1, IF Len(c1.nameTab) = 0 THEN "XML_PARSER_MISC"
                                        ELSE "XML_PARSER_CONTENT"))])])

\* case XML_PARSER_END_TAG, going on in XML_PARSER_CONTENT after every end tag
TryEndTag_content(c, terminate) ==
    IF Avail(c) < 2 THEN Done(c)
    ELSE
    With([w \in {TagIncomplete(c, terminate)} |->
        IF w.rv < 0 THEN Done(w)
        ELSE IF Len(w.pushTab) = 0 THEN Done([w EXCEPT !.unmodelled = TRUE])
        ELSE
        LET top == w.pushTab[Len(w.pushTab)]
        IN  With([c1 \in {nameNsPop(xmlParseEndTag2(Begun(w, terminate, "end"),
                                                    top.prefix, top.URI,
                                                    top.nsNr, 0))} |->
                IF c1.instate = "XML_PARSER_EOF" THEN Again(c1)
                ELSE Again(SetState(c1, "XML_PARSER_CONTENT"))])])

\* case XML_PARSER_END_TAG
TryEndTag(c, terminate) ==
    IF Avail(c) < 2 THEN Done(c)
    ELSE
    With([w \in {TagIncomplete(c, terminate)} |->
        IF w.rv < 0 THEN Done(w)
        ELSE IF Len(w.pushTab) = 0 THEN Done([w EXCEPT !.unmodelled = TRUE])
        ELSE
        LET top == w.pushTab[Len(w.pushTab)]
        IN  With([c1 \in {nameNsPop(xmlParseEndTag2(Begun(w, terminate, "end"),
                                                    top.prefix, top.URI,
                                                    top.nsNr, 0))} |->
                IF c1.instate = "XML_PARSER_EOF" THEN Again(c1)
                ELSE Again(SetState(c1, IF Len(c1.nameTab) = 0 THEN "XML_PARSER_EPILOG"
                                        ELSE "XML_PARSER_CONTENT"))])])

\* case XML_PARSER_CDATA_SECTION
TryCDataSection(c, terminate) ==
    \* l.rv is base
    With([l \in {xmlParseLookupSequence(c, "]", "]", ">")} |->
        LET base == l.rv
            big == xmlCheckCdataPush(l, XML_PARSER_BIG_BUFFER_SIZE)
            p1 == CDataBlock(l, Slice(l, l.cur, l.cur + big))
            tmp == xmlCheckCdataPush(l, base)
            p2 == IF base = 0
                  THEN (IF l.disableSAX = 0 /\ l.cur - 1 >= 9 /\ Lit(l, l.cur - 9, CDStart)
                        THEN CDataBlock(l, <<>>) ELSE l)
                  ELSE CDataBlock(l, Slice(l, l.cur, l.cur + base))
        IN  IF base < 0
            THEN (IF Avail(l) >= XML_PARSER_BIG_BUFFER_SIZE + 2
                  THEN (IF p1.instate = "XML_PARSER_EOF" THEN Done(p1)
                        ELSE Done([SKIPL(p1, big) EXCEPT !.checkIndex = 0]))
                  ELSE Done(l))
            ELSE IF tmp # base THEN Done([l EXCEPT !.unmodelled = TRUE])
            ELSE IF p2.instate = "XML_PARSER_EOF" THEN Done(p2)
            ELSE Again(SetState([SKIPL(p2, base + 3) EXCEPT !.checkIndex = 0],
                                "XML_PARSER_CONTENT"))])

\* a progress test of case XML_PARSER_CONTENT that ends the parse without
\* an error
ContentProgress_quiet(c, c1) ==
    IF c1.cur = c.cur /\ c1.stopped = c.stopped
    THEN Again(SetState(Turned(c, c1), "XML_PARSER_EOF"))
    ELSE Again(Turned(c, c1))

\* the test that ends a turn of case XML_PARSER_CONTENT: test == CUR_PTR
\* compares pointers, so a parser stopped by the consumer has moved
ContentProgress(c, c1) ==
    IF c1.cur = c.cur /\ c1.stopped = c.stopped
    THEN Again(SetState(xmlFatalErr(Turned(c, c1), "XML_ERR_INTERNAL_ERROR"),
                        "XML_PARSER_EOF"))
    ELSE Again(Turned(c, c1))

\* if not on the final chunk, must the text at the read position wait for
\* the '<' that ends it
TextIncomplete(c, terminate) ==
    IF terminate \/ Avail(c) >= XML_PARSER_BIG_BUFFER_SIZE THEN [c EXCEPT !.rv = 0]
    ELSE IF c.progressive # "0"
    THEN [c EXCEPT !.rv = IF c.lastlt = 0 \/ c.cur > c.lastlt THEN -1 ELSE 0]
    ELSE xmlParseLookupSequence(c, "<", NUL, NUL)

\* case XML_PARSER_CONTENT
TryContent(c, terminate) ==
    LET cur == RAW(c)
        next == NXT(c, 1)
        pi == LookupUnlessFinal(c, terminate, "?", ">", NUL)
        cm == [xmlParseLookupSequence(SKIP(c, 4), "-", "-", ">") EXCEPT !.cur = c.cur]
        ref == LookupUnlessFinal(c, terminate, ";", NUL, NUL)
        txt == TextIncomplete(c, terminate)
    IN  IF Avail(c) < 2 THEN Done(c)
        ELSE IF cur = "<" /\ next = "/" THEN Again(SetState(c, "XML_PARSER_END_TAG"))
        ELSE IF cur = "<" /\ next = "?"
        THEN (IF pi.rv < 0 THEN Done([pi EXCEPT !.progressive = "XML_PARSER_PI"])
              ELSE ContentProgress(c, [SetState(xmlParsePI(pi), "XML_PARSER_CONTENT")
                                       EXCEPT !.progressive = "1"]))
        ELSE IF cur = "<" /\ next # "!" THEN Again(SetState(c, "XML_PARSER_START_TAG"))
        ELSE IF Lit(c, c.cur, <<"<", "!", "-", "-">>)
        THEN (IF ~terminate /\ cm.rv < 0
              THEN Done([cm EXCEPT !.progressive = "XML_PARSER_COMMENT"])
              ELSE ContentProgress(c, [SetState(xmlParseComment(cm), "XML_PARSER_CONTENT")
                                       EXCEPT !.progressive = "1"]))
        ELSE IF Lit(c, c.cur, CDStart)
        THEN Again(SetState(SKIP(c, 9), "XML_PARSER_CDATA_SECTION"))
        ELSE IF cur = "<" /\ next = "!" /\ Avail(c) < 9 THEN Done(c)
        ELSE IF cur = "&"
        THEN (IF ref.rv < 0 THEN Done(ref) ELSE ContentProgress(c, xmlParseReference(ref)))
        ELSE IF txt.rv < 0 THEN Done(txt)
        ELSE ContentProgress(c, xmlParseCharData([txt EXCEPT !.checkIndex = 0]))

\* a processing instruction or a comment in XML_PARSER_MISC, _PROLOG or
\* _EPILOG: the state is put back unless the parser was stopped
TryMiscItem(c, terminate, isPI, resetIndex) ==
    With([l \in {IF isPI THEN LookupUnlessFinal(c, terminate, "?", ">", NUL)
                 ELSE LookupUnlessFinal(c, terminate, "-", "-", ">")} |->
        IF l.rv < 0
        THEN Done([l EXCEPT !.progressive = IF isPI THEN "XML_PARSER_PI"
                                            ELSE "XML_PARSER_COMMENT"])
        ELSE
        With([c1 \in {IF isPI THEN xmlParsePI(l) ELSE xmlParseComment(l)} |->
            IF c1.instate = "XML_PARSER_EOF" THEN Done(c1)
            ELSE Again([SetState(c1, c.instate)
                          EXCEPT !.progressive = "1",
                                 !.checkIndex = IF resetIndex THEN 0 ELSE @])])])

\* the scan of case XML_PARSER_DTD for "']' S? '>'" outside quotes and
\* comments, from offset base; found tells whether the end of the internal
\* subset is in the buffer
RECURSIVE SubsetEndScan(_, _, _)
SubsetEndScan(c, base, quote) ==
    LET use == Len(c.buf)
        ch == At(c, base + 1)
        ends == {k \in base..(use - 4) : Lit(c, k + 1, <<"-", "-", ">">>)}
        stop == Min({i \in 1..(use - base) :
                        base + i >= use \/ At(c, base + i + 1) = ">"
                                       \/ ~IS_BLANK_CH(At(c, base + i + 1))})
        notFound(b) == [found |-> FALSE, base |-> b, quote |-> quote]
    IN  IF base >= use THEN notFound(base)
        ELSE IF quote # NUL
        THEN SubsetEndScan(c, base + 1, IF ch = quote THEN NUL ELSE quote)
        ELSE IF ch = "<" /\ base + 4 < use /\ Lit(c, base + 2, <<"!", "-", "-">>)
        THEN (IF ends = {} THEN notFound(use - 3)
              ELSE SubsetEndScan(c, Min(ends) + 3, quote))
        ELSE IF ch \in {"\"", "'"} THEN SubsetEndScan(c, base + 1, ch)
        ELSE IF ch = "]"
        THEN (IF base + 1 >= use THEN notFound(base)
              ELSE IF At(c, base + 2) = "]" THEN SubsetEndScan(c, base + 2, quote)
              ELSE IF base + stop >= use THEN notFound(base)
              ELSE IF At(c, base + stop + 1) = ">"
              THEN [found |-> TRUE, base |-> base, quote |-> quote]
              ELSE SubsetEndScan(c, base + 1, quote))
        ELSE SubsetEndScan(c, base + 1, quote)

\* the search for the end of the subset, from the read position or from
\* the position remembered by the search before
SubsetLookup(c) == SubsetEndScan(c, Max({c.cur - 1, c.checkIndex}), NUL)

\* the end was not found: ctxt->checkIndex = (quote == 0) ? base : 0
SubsetNotFound(c, s) == [c EXCEPT !.checkIndex = IF s.quote = NUL THEN s.base ELSE 0]

\* case XML_PARSER_DTD: the internal subset is parsed once its end is in
\* the buffer
TryDTD(c, terminate) ==
    With([s \in {SubsetLookup(c)} |->
        IF ~s.found THEN Done(SubsetNotFound(c, s))
        ELSE
        With([c1 \in {xmlParseInternalSubset(MemoZero([c EXCEPT !.checkIndex = 0]))} |->
            IF c1.instate = "XML_PARSER_EOF" THEN Done(c1)
            ELSE
            With([c2 \in {[ExternalSubset([c1 EXCEPT !.inSubset = 2])
                            EXCEPT !.inSubset = 0]} |->
                IF c2.instate = "XML_PARSER_EOF" THEN Done(c2)
                ELSE Again([SetState(c2, "XML_PARSER_PROLOG") EXCEPT !.checkIndex = 0])])])])

\* the document type declaration in XML_PARSER_MISC
TryDocType(c, terminate) ==
    With([l \in {LookupUnlessFinal(c, terminate, ">", NUL, NUL)} |->
        IF l.rv < 0 THEN Done([l EXCEPT !.progressive = "XML_PARSER_DTD"])
        ELSE
        With([c1 \in {xmlParseDocTypeDecl([l EXCEPT !.inSubset = 1, !.progressive = "0",
                                                    !.checkIndex = 0])} |->
            IF c1.instate = "XML_PARSER_EOF" THEN Done(c1)
            ELSE IF RAW(c1) = "["
            THEN Again(SetState(c1, "XML_PARSER_DTD"))
            ELSE Again(SetState([ExternalSubset([c1 EXCEPT !.inSubset = 2])
                                   EXCEPT !.inSubset = 0],
                                "XML_PARSER_PROLOG"))])])

ToStartTag(c, progressive) ==
    Again(xmlParseGetLasts([SetState(c, "XML_PARSER_START_TAG")
                            EXCEPT !.progressive = progressive]))

\* case XML_PARSER_MISC
TryMisc(c0, terminate) ==
    LET c == SKIP_BLANKS(c0)
    IN  IF Avail(c) < 2 THEN Done(c)
        ELSE IF RAW(c) = "<" /\ NXT(c, 1) = "?" THEN TryMiscItem(c, terminate, TRUE, TRUE)
        ELSE IF Lit(c, c.cur, <<"<", "!", "-", "-">>)
        THEN TryMiscItem(c, terminate, FALSE, TRUE)
        ELSE IF Lit(c, c.cur, DocType) THEN TryDocType(c, terminate)
        ELSE IF RAW(c) = "<" /\ NXT(c, 1) = "!" /\ Avail(c) < 9 THEN Done(c)
        ELSE ToStartTag(c, "XML_PARSER_START_TAG")

\* case XML_PARSER_PROLOG
TryProlog(c0, terminate) ==
    LET c == SKIP_BLANKS(c0)
    IN  IF Avail(c) < 2 THEN Done(c)
        ELSE IF RAW(c) = "<" /\ NXT(c, 1) = "?" THEN TryMiscItem(c, terminate, TRUE, FALSE)
        ELSE IF Lit(c, c.cur, <<"<", "!", "-", "-">>)
        THEN TryMiscItem(c, terminate, FALSE, FALSE)
        ELSE IF RAW(c) = "<" /\ NXT(c, 1) = "!" /\ Avail(c) < 4 THEN Done(c)
        ELSE ToStartTag(c, IF c.progressive = "0" THEN "XML_PARSER_START_TAG"
                           ELSE c.progressive)

\* case XML_PARSER_EPILOG
TryEpilog(c0, terminate) ==
    LET c == SKIP_BLANKS(c0)
    IN  IF Avail(c) < 2 THEN Done(c)
        ELSE IF RAW(c) = "<" /\ NXT(c, 1) = "?" THEN TryMiscItem(c, terminate, TRUE, FALSE)
        ELSE IF Lit(c, c.cur, <<"<", "!", "-", "-">>)
        THEN TryMiscItem(c, terminate, FALSE, FALSE)
        ELSE IF RAW(c) = "<" /\ NXT(c, 1) = "!" /\ Avail(c) < 4 THEN Done(c)
        ELSE Done(EndDocument(SetState(xmlFatalErr(c, "XML_ERR_DOCUMENT_END"),
                                       "XML_PARSER_EOF")))

\* the switch of xmlParseTryOrFinish; the states that only a declaration
\* subset reaches are outside the input domain
TryCase(c, terminate) ==
    CASE c.instate = "XML_PARSER_START" -> TryStart(c, terminate)
      [] c.instate = "XML_PARSER_START_TAG" -> TryStartTag(c, terminate)
      [] c.instate = "XML_PARSER_CONTENT" -> TryContent(c, terminate)
      [] c.instate = "XML_PARSER_END_TAG" -> TryEndTag(c, terminate)
      [] c.instate = "XML_PARSER_CDATA_SECTION" -> TryCDataSection(c, terminate)
      [] c.instate = "XML_PARSER_MISC" -> TryMisc(c, terminate)
      [] c.instate = "XML_PARSER_PROLOG" -> TryProlog(c, terminate)
      [] c.instate = "XML_PARSER_EPILOG" -> TryEpilog(c, terminate)
      [] c.instate = "XML_PARSER_DTD" -> TryDTD(c, terminate)
      [] OTHER -> Done([c EXCEPT !.unmodelled = TRUE])

\* the loop while(ctxt->instate != XML_PARSER_EOF)
RECURSIVE TryLoop(_, _)
TryLoop(c, terminate) ==
    IF c.instate = "XML_PARSER_EOF" THEN c
    ELSE IF c.errNo # "XML_ERR_OK" /\ c.disableSAX = 1 THEN c
    ELSE IF Avail(c) < 1 THEN c
    ELSE With([c1 \in {TryCase(c, terminate)} |->
             IF c1.again THEN TryLoop(c1, terminate) ELSE c1])

\* xmlParserInputShrink: the consumed bytes but the last LINE_LEN are
\* dropped from the front of the buffer
xmlParserInputShrink(c) ==
    IF c.cur - 1 <= INPUT_CHUNK THEN c
    ELSE [c EXCEPT !.buf = SubSeq(@, c.cur - LINE_LEN, Len(@)), !.cur = LINE_LEN + 1]

\* the bytes behind the buffer are in it already in the push driver
xmlSHRINK(c) == xmlParserInputShrink(c)

\* the shrink that leaves the remembered position
PushShrink_kept(c) ==
    IF c.cur - 1 > ShrinkThreshold
    THEN MemoZero([xmlSHRINK(c) EXCEPT !.memoDropped = @ \/ c.checkIndex # 0])
    ELSE c

\* xmlSHRINK(ctxt); ctxt->checkIndex = 0, once more than ShrinkThreshold
\* bytes are consumed.  Ghost: memoDropped, a position was remembered
PushShrink(c) ==
    IF c.cur - 1 > ShrinkThreshold
    THEN MemoZero([xmlSHRINK(c) EXCEPT !.memoDropped = @ \/ c.checkIndex # 0,
                                       !.checkIndex = 0])
    ELSE c

xmlParseTryOrFinish(c, terminate) == TryLoop(xmlParseGetLasts(PushShrink(c)), terminate)

\* the termination check that ends xmlParseChunk on the final chunk
ChunkTerminate_open(c) ==
    LET c1 == IF c.instate \notin {"XML_PARSER_EOF", "XML_PARSER_EPILOG"}
              THEN xmlFatalErr(c, "XML_ERR_DOCUMENT_END") ELSE c
        c2 == IF c1.instate = "XML_PARSER_EPILOG" /\ Avail(c1) > 0
              THEN xmlFatalErr(c1, "XML_ERR_DOCUMENT_END") ELSE c1
    IN  IF c2.instate # "XML_PARSER_EOF" THEN EndDocument(c2) ELSE c2

ChunkTerminate(c) ==
    LET c1 == IF c.instate \notin {"XML_PARSER_EOF", "XML_PARSER_EPILOG"}
              THEN (IF Len(c.nameTab) > 0
                    \* ghost: the data ended inside the root element, whose
                    \* start tag was read with the stacks of a new context
                    THEN TagLogged(xmlFatalErr(c, "XML_ERR_DOCUMENT_END"), "premature",
                                   Depths(NewParserCtxt(0, 0)))
                    ELSE xmlFatalErr(c, "XML_ERR_DOCUMENT_END"))
              ELSE c
        c2 == IF c1.instate = "XML_PARSER_EPILOG" /\ Avail(c1) > 0
              THEN xmlFatalErr(c1, "XML_ERR_DOCUMENT_END") ELSE c1
        c3 == IF c2.instate # "XML_PARSER_EOF" THEN EndDocument(c2) ELSE c2
    IN  SetState(c3, "XML_PARSER_EOF")

\* xmlParseChunk once past its two entry checks, up to the call of
\* xmlParseTryOrFinish: the chunk is appended and parsed.  The chunk holds no
\* carriage return and no encoder is plugged on the input domain.
ChunkParsed(c, chunk, terminate) ==
    LET old_avail == IF Len(chunk) > 0 THEN Len(c.buf) ELSE 0
        c1 == [c EXCEPT !.buf = c.buf \o chunk]
        avail == Len(c1.buf)
    IN  IF terminate \/ old_avail = 0 \/ avail = 0 \/ xmlParseCheckTransition(c1, chunk)
        THEN xmlParseTryOrFinish(c1, terminate) ELSE c1

\* the rest of xmlParseChunk: the early returns, the termination check and
\* the value returned
ChunkPushed(c, chunk, terminate) ==
    With([c2 \in {ChunkParsed(c, chunk, terminate)} |->
        IF c2.instate = "XML_PARSER_EOF" THEN Returned(c2, c2.errNo)
        ELSE IF c2.errNo # "XML_ERR_OK" /\ c2.disableSAX = 1 THEN Returned(c2, c2.errNo)
        ELSE With([c3 \in {IF terminate THEN ChunkTerminate(c2) ELSE c2} |->
                 Returned(c3, IF c3.wellFormed = 1 THEN "0" ELSE c3.errNo)])])

\* xmlParseChunk without its check of a stored error on entry
xmlParseChunk_unchecked(c, chunk, terminate) ==
    IF c.instate = "XML_PARSER_EOF" THEN Returned(c, "-1")
    ELSE ChunkPushed(c, chunk, terminate)

\* rv is the value returned: "0", "-1" or the error code
xmlParseChunk(c, chunk, terminate) ==
    IF c.errNo # "XML_ERR_OK" /\ c.disableSAX = 1 THEN Returned(c, c.errNo)
    ELSE IF c.instate = "XML_PARSER_EOF" THEN Returned(c, "-1")
    ELSE ChunkPushed(c, chunk, terminate)

-----------------------------------------------------------------------------
(* Parser contexts *)

\* the fields that xmlNewParserCtxt initialises
\* xmlCreatePushParserCtxt(sax, user_data, NULL, 0, NULL)
xmlCreatePushParserCtxt(recovery, stopAt) ==
    [NewParserCtxt(recovery, stopAt) EXCEPT !.charset = "XML_CHAR_ENCODING_NONE"]

\* a context reading the whole document from memory, for xmlParseDocument
CreateMemoryParserCtxt(buffer, recovery, stopAt) ==
    [NewParserCtxt(recovery, stopAt) EXCEPT !.buf = buffer]

\* xmlCtxtUseOptions(ctxt, options), for the option that lifts the limits
\* of the parser and the option that substitutes entities
xmlCtxtUseOptions(c, options) ==
    [c EXCEPT !.options = @ \cup (options \cap {"XML_PARSE_HUGE", "XML_PARSE_NOENT",
                                                   "XML_PARSE_NSCLEAN"}),
              !.replaceEntities = IF "XML_PARSE_NOENT" \in options THEN 1 ELSE 0]

\* the locals and out-parameters of the functions hold nothing between calls
Settle(c) ==
    [c EXCEPT !.rv = NULL, !.rprefix = NULL, !.rvalue = NULL, !.ralloc = 0, !.rptr = 0,
              !.rURI = NULL,
              !.rtlen = 0, !.lastlt = 0, !.lastgt = 0, !.again = FALSE]

-----------------------------------------------------------------------------
(* Documents *)

\* an element with text:  <a>t</a>
DocText == <<"<", "a", ">", "t", "<", "/", "a", ">">>

\* a comment that begins with '>' before the root:  <!-->--><a/>
DocCommentGt == <<"<", "!", "-", "-", ">", "-", "-", ">", "<", "a", "/", ">">>

\* a comment holding "--", then text:  <a><!--x--y-->t</a>
DocHyphens == <<"<", "a", ">", "<", "!", "-", "-", "x", "-", "-", "y", "-", "-", ">", "t",
    "<", "/", "a", ">">>

\* a processing instruction, a CDATA section and a reference:  <a><?p x?><![CDATA[d]]>&lt;</a>
DocContent == <<"<", "a", ">", "<", "?", "p", " ", "x", "?", ">", "<", "!", "[", "C", "D",
    "A", "T", "A", "[", "d", "]", "]", ">", "&", "l", "t", ";", "<", "/", "a", ">">>

\* an external subset and an undeclared entity:  <!DOCTYPE a SYSTEM "s"><a>&e;</a>
DocDocType == <<"<", "!", "D", "O", "C", "T", "Y", "P", "E", " ", "a", " ", "S", "Y", "S",
    "T", "E", "M", " ", "\"", "s", "\"", ">", "<", "a", ">", "&", "e", ";", "<", "/", "a",
    ">">>

\* an end tag that does not match:  <a><b></a>
DocMismatch == <<"<", "a", ">", "<", "b", ">", "<", "/", "a", ">">>

\* an undeclared prefix:  <p:a/>
DocNoPrefix == <<"<", "p", ":", "a", "/", ">">>

\* a prefix bound twice, one binding inside the other:  <a xmlns:p="u:1"><b xmlns:p="u:2"><c p:x="1"/></b><d p:y="2"/></a>
DocShadow == <<"<", "a", " ", "x", "m", "l", "n", "s", ":", "p", "=", "\"", "u", ":", "1",
    "\"", ">", "<", "b", " ", "x", "m", "l", "n", "s", ":", "p", "=", "\"", "u", ":", "2",
    "\"", ">", "<", "c", " ", "p", ":", "x", "=", "\"", "1", "\"", "/", ">", "<", "/", "b",
    ">", "<", "d", " ", "p", ":", "y", "=", "\"", "2", "\"", "/", ">", "<", "/", "a", ">">>

\* two attributes with one local name and one namespace:  <a xmlns:p="u:" xmlns:q="u:" p:x="1" q:x="2"/>
DocSameURI == <<"<", "a", " ", "x", "m", "l", "n", "s", ":", "p", "=", "\"", "u", ":",
    "\"", " ", "x", "m", "l", "n", "s", ":", "q", "=", "\"", "u", ":", "\"", " ", "p", ":",
    "x", "=", "\"", "1", "\"", " ", "q", ":", "x", "=", "\"", "2", "\"", "/", ">">>

\* one attribute twice:  <a b="1" b="2"/>
DocDupAttr == <<"<", "a", " ", "b", "=", "\"", "1", "\"", " ", "b", "=", "\"", "2", "\"",
    "/", ">">>

\* one prefix declared twice on a tag:  <a xmlns:p="u:" xmlns:p="v:"/>
DocDupNs == <<"<", "a", " ", "x", "m", "l", "n", "s", ":", "p", "=", "\"", "u", ":", "\"",
    " ", "x", "m", "l", "n", "s", ":", "p", "=", "\"", "v", ":", "\"", "/", ">">>

\* the prefix xml bound to another namespace:  <a xmlns:xml="u:"/>
DocXmlPrefix == <<"<", "a", " ", "x", "m", "l", "n", "s", ":", "x", "m", "l", "=", "\"",
    "u", ":", "\"", "/", ">">>

\* "]]>" in text:  <a>]]></a>
DocCDEnd == <<"<", "a", ">", "]", "]", ">", "<", "/", "a", ">">>

\* a comment and text after the root:  <a/> <!--c-->x
DocEpilog == <<"<", "a", "/", ">", " ", "<", "!", "-", "-", "c", "-", "-", ">", "x">>

\* an undeclared entity without document type:  <a>&u;</a>
DocNoEntity == <<"<", "a", ">", "&", "u", ";", "<", "/", "a", ">">>

\* an undeclared entity after an empty internal subset:  <!DOCTYPE a [ ]><a>&u;</a>
DocEmptySubset == <<"<", "!", "D", "O", "C", "T", "Y", "P", "E", " ", "a", " ", "[", " ", "]",
    ">", "<", "a", ">", "&", "u", ";", "<", "/", "a", ">">>

\* '<' in an attribute value:  <a v="<"/>
DocLtLiteral == <<"<", "a", " ", "v", "=", "\"", "<", "\"", "/", ">">>

\* an attribute value that refers to A, which refers to B, which holds '<':
\* <a v="&A;"/>
DocLtIndirect == <<"<", "a", " ", "v", "=", "\"", "&", "A", ";", "\"", "/", ">">>

\* the same reference in content first:  <r>&A;<y v="&A;"/></r>
DocLtAfterContent == <<"<", "r", ">", "&", "A", ";", "<", "y", " ", "v", "=", "\"", "&", "A", ";", "\"", "/", ">", "<", "/", "r", ">">>

\* a reference in content to L, which refers to itself:  <a>&L;t</a>
DocLoop == <<"<", "a", ">", "&", "L", ";", "t", "<", "/", "a", ">">>

\* a reference in an attribute value to M, which refers to N, which refers
\* to M:  <a v="&M;"/>
DocLoopAttr == <<"<", "a", " ", "v", "=", "\"", "&", "M", ";", "\"", "/", ">">>

\* a prefix bound to the empty namespace name inside an element that binds
\* it:  <a xmlns:p="u:"><p:b xmlns:p=""/></a>
DocUndeclare == <<"<", "a", " ", "x", "m", "l", "n", "s", ":", "p", "=", "\"", "u", ":", "\"", ">",
    "<", "p", ":", "b", " ", "x", "m", "l", "n", "s", ":", "p", "=", "\"", "\"",
    "/", ">", "<", "/", "a", ">">>

\* a reference without its ';' and then a CDATA section:  <a>&u<![CDATA[]]></a>
DocRefCData == <<"<", "a", ">", "&", "u", "<", "!", "[", "C", "D", "A", "T", "A", "[", "]", "]",
    ">", "<", "/", "a", ">">>

\* a '<!' in content that opens neither a comment nor a CDATA section:
\* <a><!-x-></a>
DocBang == <<"<", "a", ">", "<", "!", "-", "x", "-", ">", "<", "/", "a", ">">>

\* '>' in an attribute value and a '<' inside the tag:  <a v=">"<b/>
DocGtAttr == <<"<", "a", " ", "v", "=", "\"", ">", "\"", "<", "b", "/", ">">>

\* a processing instruction before the root:  <?p q?><a/>
DocProlog == <<"<", "?", "p", " ", "q", "?", ">", "<", "a", "/", ">">>

\* an end tag that does not match, then text and the end tag of the root:  <a><b></a>t</a>
DocMismatchMore == <<"<", "a", ">", "<", "b", ">", "<", "/", "a", ">", "t", "<", "/", "a",
    ">">>

\* a reference to the last of the entities E, Ex, Exx, ..., then text:
\* <a>&Exxx;t</a>
DocLaughs == <<"<", "a", ">">> \o Ref(LaughName(Levels)) \o <<"t", "<", "/", "a", ">">>
Docs == {DocText, DocCommentGt, DocHyphens, DocContent, DocDocType, DocMismatch,
         DocNoPrefix, DocShadow, DocSameURI, DocDupAttr, DocDupNs, DocXmlPrefix, DocCDEnd,
         DocEpilog, DocNoEntity, DocEmptySubset, DocProlog, DocMismatchMore, DocLaughs,
         DocLtLiteral, DocLtIndirect, DocLtAfterContent, DocLoop, DocLoopAttr,
         DocUndeclare, DocRefCData, DocBang,
         DocGtAttr}

-----------------------------------------------------------------------------
(* The program: a consumer creates a context for one document and one     *)
(* driver, then calls the driver.  The push driver is fed the document in *)
(* chunks; a feed may carry the final flag before the whole document was  *)
(* given, and feeds may follow the final one.                             *)

MaxChunk == 3
MaxFinals == 2
MaxStopAt == 3

\* the consumer calls xmlStopParser from inside its stopAt-th callback;
\* with stopAt = 0 it never does
StopAts == 0..MaxStopAt

Created == [name |-> "create", terminate |-> FALSE]

Init ==
    /\ doc \in Docs
    /\ driver \in {"push", "blocking"}
    /\ \E recovery \in {0, 1}, stopAt \in StopAts :
          ctxt = IF driver = "push" THEN xmlCreatePushParserCtxt(recovery, stopAt)
                 ELSE CreateMemoryParserCtxt(doc, recovery, stopAt)
    /\ fed = 0
    /\ ret = "0"
    /\ op = Created
    /\ finals = 0

\* finals counts the calls of a driver that carry the final flag or come
\* after one that did, or after the consumer stopped the parser
Closing(terminate) == terminate \/ finals > 0 \/ ctxt.stopped

\* xmlParseChunk(ctxt, chunk, n, terminate) on the next n bytes of the document
Feed(n, terminate) ==
    /\ driver = "push"
    /\ n <= Len(doc) - fed
    /\ Closing(terminate) => finals < MaxFinals
    /\ \E c \in {xmlParseChunk(ctxt, SubSeq(doc, fed + 1, fed + n), terminate)} :
          /\ ctxt' = Settle(c)
          /\ ret' = c.rv
    /\ fed' = fed + n
    /\ op' = [name |-> "feed", terminate |-> terminate]
    /\ finals' = IF Closing(terminate) THEN finals + 1 ELSE finals
    /\ UNCHANGED <<doc, driver>>

\* xmlParseDocument(ctxt)
ParseDocument ==
    /\ driver = "blocking"
    /\ finals < MaxFinals
    /\ \E c \in {xmlParseDocument(ctxt)} :
          /\ ctxt' = Settle(c)
          /\ ret' = c.rv
    /\ fed' = Len(doc)
    /\ op' = [name |-> "parse", terminate |-> TRUE]
    /\ finals' = finals + 1
    /\ UNCHANGED <<doc, driver>>

\* xmlStopParser(ctxt), called by the consumer between two calls of a driver
Stop ==
    /\ ~ctxt.stopped
    /\ ctxt' = xmlStopParser(ctxt)
    /\ op' = [name |-> "stop", terminate |-> FALSE]
    /\ UNCHANGED <<doc, driver, fed, ret, finals>>

Next ==
    \/ \E n \in 0..MaxChunk, terminate \in BOOLEAN : Feed(n, terminate)
    \/ ParseDocument
    \/ Stop

Spec == Init /\ [][Next]_vars

\* no run leaves the input domain
InDomain == ~ctxt.unmodelled


-----------------------------------------------------------------------------
(* Claims *)

FedBytes == SubSeq(doc, 1, fed)

\* the events of one final call on the bytes fed so far, with the same consumer
OneFinalCall == xmlParseChunk(xmlCreatePushParserCtxt(ctxt.recovery, ctxt.stopAt), FedBytes, TRUE)

\* the first call with the final flag has just returned and nobody called
\* xmlStopParser between the feeds
FirstFinalFeedDone ==
    /\ driver = "push" /\ op.name = "feed" /\ op.terminate /\ finals = 1
    /\ ctxt.stopAt = 0 /\ ~ctxt.stopped

\* C1: whatever the split of the bytes into chunks, with the final flag on the
\* last call only, the consumer has received exactly the events that one
\* final call on the same bytes delivers
C1_ChunkingEquivalence ==
    FirstFinalFeedDone => ctxt.events = OneFinalCall.events

FatalRecorded == \E i \in 1..Len(ctxt.errs) : ctxt.errs[i].level = "XML_ERR_FATAL"

\* C2: once a fatal error is recorded on a context with recover off, a feed
\* returns the stored error code and leaves the context as it was: no input
\* consumed or buffered, no state change, no event
C2_FeedAfterFatalIsNoOp ==
    [][(op'.name = "feed" /\ ctxt.recovery = 0 /\ FatalRecorded)
         => (ret' = ctxt.errNo /\ ret' # "0" /\ ctxt' = ctxt)]_vars

\* bytes were fed after the fatal error and never reached the buffer
C2_FedAfterFatal ==
    /\ op.name = "feed" /\ ctxt.recovery = 0 /\ FatalRecorded /\ ~ctxt.stopped
    /\ ctxt.instate # "XML_PARSER_EOF"
    /\ Len(ctxt.buf) < fed /\ ret = ctxt.errNo

ContentEvents ==
    {"startElementNs", "endElementNs", "characters", "cdataBlock", "comment",
     "processingInstruction"}

\* the events delivered after the i-th recorded error was raised
EventsAfter(i) == SubSeq(ctxt.events, ctxt.errs[i].at + 1, Len(ctxt.events))

\* C3: with recover off, no element, character-data, CDATA, comment or
\* processing-instruction event is delivered after a fatal error was raised,
\* whichever driver runs the parse
C3_NoContentEventAfterFatal ==
    ctxt.recovery = 0 =>
        \A i \in 1..Len(ctxt.errs) :
            ctxt.errs[i].level = "XML_ERR_FATAL" =>
                \A j \in 1..Len(EventsAfter(i)) : EventsAfter(i)[j].kind \notin ContentEvents

\* C4: a context starts in XML_PARSER_START, and once its state is
\* XML_PARSER_EOF nothing moves it to another state, neither between two
\* operations nor inside one
C4_EofIsTerminal ==
    /\ [](op.name = "create" => ctxt.instate = "XML_PARSER_START")
    /\ [](~ctxt.eofLeft)
    /\ [][ctxt.instate = "XML_PARSER_EOF" => ctxt'.instate = "XML_PARSER_EOF"]_vars

\* the constructs the push parser looks ahead for: how each opens, the
\* sequence that ends it, and the states where it is recognised
Constructs ==
    {[kind |-> "PI", open |-> <<"<", "?">>, close |-> <<"?", ">">>,
      states |-> {"XML_PARSER_START", "XML_PARSER_MISC", "XML_PARSER_PROLOG",
                  "XML_PARSER_EPILOG", "XML_PARSER_CONTENT"}],
     [kind |-> "comment", open |-> <<"<", "!", "-", "-">>, close |-> <<"-", "-", ">">>,
      states |-> {"XML_PARSER_START", "XML_PARSER_MISC", "XML_PARSER_PROLOG",
                  "XML_PARSER_EPILOG", "XML_PARSER_CONTENT"}],
     [kind |-> "CDATA", open |-> CDStart, close |-> <<"]", "]", ">">>,
      states |-> {"XML_PARSER_CONTENT"}],
     [kind |-> "DOCTYPE", open |-> DocType, close |-> <<">">>,
      states |-> {"XML_PARSER_START", "XML_PARSER_MISC"}],
     [kind |-> "reference", open |-> <<"&">>, close |-> <<";">>,
      states |-> {"XML_PARSER_CONTENT"}]}

\* the construct k opens at the read position of c, in a state where it is
\* recognised, and the sequence that ends it is nowhere in the buffer from
\* the read position on
Unterminated(c, k) ==
    /\ c.instate \in k.states
    /\ Lit(c, c.cur, k.open)
    /\ \A j \in c.cur..Len(c.buf) : ~Lit(c, j, k.close)

\* the context with the bytes of the coming feed appended to its buffer
WithFed == [ctxt EXCEPT !.buf = ctxt.buf \o SubSeq(doc, fed + 1, fed')]

NothingConsumed ==
    /\ ctxt'.cur = ctxt.cur /\ ctxt'.instate = ctxt.instate /\ ctxt'.events = ctxt.events

HeldBack ==
    {[k EXCEPT !.states = k.states \ {"XML_PARSER_START"}] :
        k \in {c \in Constructs : c.kind \in {"comment", "DOCTYPE", "reference"}}}
    \cup {k \in Constructs : k.kind = "PI"}

FinalFeedParsed ==
    IF (ctxt.errNo # "XML_ERR_OK" /\ ctxt.disableSAX = 1) \/ ctxt.instate = "XML_PARSER_EOF"
    THEN ctxt
    ELSE ChunkParsed(ctxt, SubSeq(doc, fed + 1, fed'), TRUE)

\* C6: a final feed whose parsing ends in a state other than
\* XML_PARSER_EPILOG and XML_PARSER_EOF leaves a fatal error recorded and
\* returns a non-zero code
C6_FinalFeedIncomplete ==
    [][(op'.name = "feed" /\ op'.terminate
        /\ FinalFeedParsed.instate \notin {"XML_PARSER_EPILOG", "XML_PARSER_EOF"})
         => (FatalRecorded' /\ ret' # "0")]_vars

\* the codes raised through xmlNsErr
NsErrCodes ==
    {"XML_NS_ERR_QNAME", "XML_NS_ERR_COLON", "XML_NS_ERR_UNDEFINED_NAMESPACE",
     "XML_NS_ERR_ATTRIBUTE_REDEFINED", "XML_NS_ERR_XML_NAMESPACE", "XML_WAR_NS_URI"}

\* a feed of the document has returned: the consumer has not stopped the
\* parser and the feed is not one made after the final one
FeedOfParse ==
    /\ driver = "push" /\ op.name = "feed" /\ ~ctxt.stopped
    /\ finals = 0 \/ (finals = 1 /\ op.terminate)

AllErrs(codes) ==
    ctxt.errs # <<>> /\ \A i \in 1..Len(ctxt.errs) : ctxt.errs[i].code \in codes

\* C7 as claimed: when all the errors raised are namespace errors, end-tag
\* name mismatches under recover, or undeclared-entity warnings, the feed
\* returns 0 and the error stays recorded
C7_RecoverableReturnsZero ==
    (FeedOfParse
     /\ AllErrs(NsErrCodes \cup {"XML_WAR_UNDECLARED_ENTITY"}
                \cup (IF ctxt.recovery = 1 THEN {"XML_ERR_TAG_NAME_MISMATCH"} ELSE {})))
        => (ret = "0" /\ ctxt.errNo # "XML_ERR_OK")

\* C7 amended: the same without the end-tag name mismatch
C7_NsAndEntityReturnZero ==
    (FeedOfParse /\ AllErrs(NsErrCodes \cup {"XML_WAR_UNDECLARED_ENTITY"}))
        => (ret = "0" /\ ctxt.errNo # "XML_ERR_OK")

\* the final feed of a document whose only errors were namespace errors
C7_ClosedWithNsError ==
    /\ FeedOfParse /\ op.terminate /\ fed = Len(doc)
    /\ AllErrs(NsErrCodes) /\ ctxt.nsWellFormed = 0
    /\ ret = "0"

\* what the consumer knows from the events it received: the namespace
\* declarations of the elements still open, outermost first, one entry per
\* element
RECURSIVE OpenDecls(_)
OpenDecls(evs) ==
    IF evs = <<>> THEN <<>>
    ELSE LET rest == OpenDecls(SubSeq(evs, 1, Len(evs) - 1))
             e == evs[Len(evs)]
         IN  IF e.kind = "startElementNs" THEN Append(rest, e.namespaces)
             ELSE IF e.kind = "endElementNs" /\ rest # <<>>
             THEN SubSeq(rest, 1, Len(rest) - 1)
             ELSE rest

\* the URI that the innermost element of open declaring prefix binds it to;
\* NULL if none does
RECURSIVE Innermost(_, _)
Innermost(open, prefix) ==
    IF open = <<>> THEN NULL
    ELSE LET decls == open[Len(open)]
             here == {i \in 1..Len(decls) : i % 2 = 1 /\ decls[i] = prefix}
         IN  IF here = {} THEN Innermost(SubSeq(open, 1, Len(open) - 1), prefix)
             ELSE decls[Max(here) + 1]

RECURSIVE Flatten(_)
Flatten(open) ==
    IF open = <<>> THEN <<>>
    ELSE Flatten(SubSeq(open, 1, Len(open) - 1)) \o open[Len(open)]

\* the prefix xml is bound without declaration, and xmlns="" undeclares the
\* default namespace
Resolved(open, prefix) ==
    IF prefix = str_xml THEN XML_XML_NAMESPACE
    ELSE IF prefix = NULL /\ Innermost(open, prefix) = <<>> THEN NULL
    ELSE Innermost(open, prefix)

AttrURIs(k) ==
    {ctxt.events[k].attributes[i].URI : i \in 1..Len(ctxt.events[k].attributes)}

SameIdentity(e) ==
    /\ e.kind = "startElementNs"
    /\ \E i, j \in 1..Len(e.attributes) :
          /\ i < j
          /\ e.attributes[i].name = e.attributes[j].name
          /\ e.attributes[i].prefix # e.attributes[j].prefix
          /\ e.attributes[i].URI # NULL
          /\ e.attributes[i].URI = e.attributes[j].URI

RedefinedCodes == {"XML_ERR_ATTRIBUTE_REDEFINED", "XML_NS_ERR_ATTRIBUTE_REDEFINED"}

OnlyNsDegraded ==
    /\ ctxt.nsWellFormed = 0 /\ ctxt.wellFormed = 1
    /\ ~ctxt.stopped => ctxt.disableSAX = 0

\* C10 as claimed: when the errors raised are undefined prefixes, duplicate
\* attributes or namespace declarations on one tag, and reserved-URI misuse,
\* nsWellFormed is cleared while wellFormed and disableSAX are untouched
C10_NsErrorsOnlyDegradeNs ==
    AllErrs({"XML_NS_ERR_UNDEFINED_NAMESPACE", "XML_NS_ERR_ATTRIBUTE_REDEFINED",
             "XML_ERR_ATTRIBUTE_REDEFINED", "XML_NS_ERR_XML_NAMESPACE"})
        => OnlyNsDegraded

\* C10 amended: so it is for the errors raised through xmlNsErr; a name or a
\* namespace prefix repeated on one tag raises the fatal
\* XML_ERR_ATTRIBUTE_REDEFINED instead, which clears wellFormed, sets
\* disableSAX when recover is off, and leaves nsWellFormed alone
C10_NsErrVersusAttributeDup ==
    /\ AllErrs(NsErrCodes) => OnlyNsDegraded
    /\ AllErrs({"XML_ERR_ATTRIBUTE_REDEFINED"}) =>
          /\ ctxt.wellFormed = 0 /\ ctxt.nsWellFormed = 1
          /\ ctxt.recovery = 0 => ctxt.disableSAX = 1

\* a document misusing the reserved prefix xml was parsed to its end, its
\* element delivered
C10_ReservedMisuseParsed ==
    /\ AllErrs({"XML_NS_ERR_XML_NAMESPACE"}) /\ OnlyNsDegraded
    /\ ctxt.instate = "XML_PARSER_EOF" /\ ~ctxt.stopped
    /\ \E k \in 1..Len(ctxt.events) : ctxt.events[k].kind = "endElementNs"

\* what the consumer knows from the events it received: the local names of
\* the elements still open, outermost first
RECURSIVE OpenNames(_)
OpenNames(evs) ==
    IF evs = <<>> THEN <<>>
    ELSE LET rest == OpenNames(SubSeq(evs, 1, Len(evs) - 1))
             e == evs[Len(evs)]
         IN  IF e.kind = "startElementNs" THEN Append(rest, e.localname)
             ELSE IF e.kind = "endElementNs" /\ rest # <<>>
             THEN SubSeq(rest, 1, Len(rest) - 1)
             ELSE rest

MismatchAt(i) == ctxt.errs[i].code = "XML_ERR_TAG_NAME_MISMATCH"

\* C11: with recover on, an end tag whose name is not that of the innermost
\* open element records XML_ERR_TAG_NAME_MISMATCH and closes that element
\* and no other: the next event is the end of the innermost open element and
\* the name stack of the push parser holds the elements the events leave
\* open.  The parse is not aborted: events stay enabled, and the push parser
\* whose last error is the mismatch is in XML_PARSER_EOF only after a final
\* feed
C11_MismatchClosesOne ==
    (ctxt.recovery = 1 /\ ~ctxt.stopped) =>
        /\ \A i \in 1..Len(ctxt.errs) :
              MismatchAt(i) =>
                  LET at == ctxt.errs[i].at
                      open == OpenNames(SubSeq(ctxt.events, 1, at))
                  IN  /\ Len(ctxt.events) > at /\ open # <<>>
                      /\ ctxt.events[at + 1].kind = "endElementNs"
                      /\ ctxt.events[at + 1].localname = open[Len(open)]
                      /\ ctxt.disableSAX = 0
        /\ (driver = "push" /\ ctxt.errs # <<>> /\ MismatchAt(Len(ctxt.errs))) =>
              /\ ctxt.instate = "XML_PARSER_EOF" => finals > 0
              /\ ctxt.instate # "XML_PARSER_EOF" =>
                    Len(ctxt.nameTab) = Len(OpenNames(ctxt.events))

\* a mismatched end tag closed the inner element, and the rest of the
\* document was delivered: the text, the end of the root and the end of the
\* document
C11_ContinuedAfterMismatch ==
    /\ ctxt.recovery = 1 /\ ~ctxt.stopped /\ doc = DocMismatchMore
    /\ \E i \in 1..Len(ctxt.errs) :
          /\ MismatchAt(i)
          /\ LET after == EventsAfter(i)
              IN  /\ Len(after) = 4
                  /\ after[1].kind = "endElementNs" /\ after[1].localname = <<"b">>
                  /\ after[2].kind = "characters" /\ after[2].data = <<"t">>
                  /\ after[3].kind = "endElementNs" /\ after[3].localname = <<"a">>
                  /\ after[4].kind = "endDocument"
    /\ OpenNames(ctxt.events) = <<>>

\* the "X" character events among the events
Laughs(evs) == {k \in 1..Len(evs) : evs[k].kind = "characters" /\ evs[k].data = <<"X">>}

EntityLoopAt(i) ==
    ctxt.errs[i].code = "XML_ERR_ENTITY_LOOP" /\ ctxt.errs[i].level = "XML_ERR_FATAL"

\* C12: in the document whose root references the last of the entities
\* E1..En, each made of Fanout references to the previous one, the reference
\* fails with a fatal XML_ERR_ENTITY_LOOP and the document is not well-formed,
\* unless the consumer stopped the parser;
\* the expansion work is bounded by the number of entities and not by the
\* size of the full expansion: at most Fanout copies of "X" are ever
\* delivered, and at most Fanout references are counted for each entity
C12_LaughsFailBounded ==
    doc = DocLaughs =>
        /\ Cardinality(Laughs(ctxt.events)) <= Fanout
        /\ ctxt.nbentities <= (Levels + 1) * Fanout
        /\ (ctxt.checked[LaughName(Levels)] # 0 /\ ~ctxt.stopped) =>
              /\ \E i \in 1..Len(ctxt.errs) : EntityLoopAt(i)
              /\ ctxt.wellFormed = 0

\* the root's reference was expanded down to E0, whose text was delivered,
\* and the parse ended with the entity loop error
C12_LaughsStopped ==
    /\ doc = DocLaughs /\ ~ctxt.stopped
    /\ ctxt.checked[LaughName(Levels)] # 0 /\ ctxt.checked[LaughName(0)] # 0
    /\ Laughs(ctxt.events) # {}
    /\ \E i \in 1..Len(ctxt.errs) : EntityLoopAt(i)
    /\ Fanout ^ Levels > Fanout

\* C14: with recover on, after a fatal XML_ERR_ENTITY_LOOP no element,
\* character-data, CDATA, comment, processing-instruction or reference event
\* is delivered: the parse of the document has stopped
C14_NothingAfterEntityLoop ==
    ctxt.recovery = 1 =>
        \A i \in 1..Len(ctxt.errs) :
            EntityLoopAt(i) =>
                \A j \in 1..Len(EventsAfter(i)) :
                    EventsAfter(i)[j].kind \notin ContentEvents \cup {"reference"}

-----------------------------------------------------------------------------
(* The tokenizers on their own: a function of the parser is applied once   *)
(* to a context created over the bytes of an input.                        *)

MaxName == 3
MaxBody == 4
MaxZeros == 11

\* the sequences of at most n elements of S
Strings(S, n) == UNION {[1..k -> S] : k \in 0..n}

NameAlphabet == {"a", "1", ":", "-", ".", " ", ">", "&"}

NameInputs == Strings(NameAlphabet, MaxName)

BodyAlphabet == {" ", "a", "\t", "&", "<"}

\* two leading, three internal and two trailing spaces around a and b
SpacedBody == <<" ", " ", "a", " ", " ", " ", "b", " ", " ">>

Bodies == Strings(BodyAlphabet, MaxBody) \cup {SpacedBody}

Quoted(q, body) == <<q>> \o body \o <<q>>

AttValueInputs == {Quoted(q, body) : q \in {"\"", "'"}, body \in Bodies}

AttName == <<"v">>
AttElem == <<"e">>

AttributeInputs == {AttName \o <<"=">> \o lit : lit \in AttValueInputs}

\* the digits of a character reference: leading zeros, then a number
Numbers ==
    {<<>>, <<"9">>, <<"A">>, <<"a">>, <<"1", "0">>, <<"G">>, <<"6", "2">>, <<"7", "8">>,
     <<"D", "8", "0", "0">>, <<"F", "F", "F", "E">>, <<"1", "0", "F", "F", "F", "F">>,
     <<"1", "1", "0", "0", "0", "0">>, <<"1", "1", "1", "4", "1", "1", "1">>,
     <<"1", "1", "1", "4", "1", "1", "2">>,
     <<"4", "2", "9", "4", "9", "6", "7", "2", "9", "6">>,
     <<"1", "0", "0", "0", "0", "0", "0", "0", "9">>}

CharRefInputs ==
    {<<"&", "#">> \o x \o Repeat(<<"0">>, z) \o n \o <<";">> :
        x \in {<<>>, <<"x">>}, z \in 0..MaxZeros, n \in Numbers}

Functions == {"xmlParseName", "xmlParseNameComplex", "xmlParseCharRef",
              "xmlParseAttValueInternal", "xmlParseAttribute2"}

FnInputs(fn) ==
    CASE fn \in {"xmlParseName", "xmlParseNameComplex"} -> NameInputs
      [] fn = "xmlParseCharRef" -> CharRefInputs
      [] fn = "xmlParseAttValueInternal" -> AttValueInputs
      [] fn = "xmlParseAttribute2" -> AttributeInputs

\* the attribute of the inputs is declared with a type other than CDATA, or
\* not declared at all
Declared == {<<NULL, AttElem, NULL, AttName>>}

FnCtxt(input, special) ==
    [CreateMemoryParserCtxt(input, 0, 0) EXCEPT !.attsSpecial = special,
                                                 !.instate = "XML_PARSER_CONTENT"]

FnInit ==
    /\ driver \in Functions
    /\ doc \in FnInputs(driver)
    /\ \E special \in {{}, Declared} :
          /\ driver # "xmlParseAttribute2" => special = {}
          /\ ctxt = FnCtxt(doc, special)
    /\ fed = 0
    /\ ret = "0"
    /\ op = Created
    /\ finals = 0

Applied(fn, normalize) == [name |-> fn, terminate |-> FALSE, normalize |-> normalize]

Apply(fn, c, normalize) ==
    /\ driver = fn
    /\ op = Created
    /\ ctxt' = c
    /\ op' = Applied(fn, normalize)
    /\ fed' = c.cur - 1
    /\ UNCHANGED <<doc, driver, ret, finals>>

ParseName == Apply("xmlParseName", xmlParseName(ctxt), 0)

ParseNameComplex == Apply("xmlParseNameComplex", xmlParseNameComplex(ctxt), 0)

ParseCharRef == Apply("xmlParseCharRef", xmlParseCharRef(ctxt), 0)

ParseAttValueInternal(normalize) ==
    Apply("xmlParseAttValueInternal", xmlParseAttValueInternal(ctxt, normalize), normalize)

ParseAttribute2 ==
    Apply("xmlParseAttribute2", xmlParseAttribute2(ctxt, NULL, AttElem),
          IF ctxt.attsSpecial = {} THEN 0 ELSE 1)

FnNext ==
    \/ ParseName
    \/ ParseNameComplex
    \/ ParseCharRef
    \/ \E normalize \in {0, 1} : ParseAttValueInternal(normalize)
    \/ ParseAttribute2

FnSpec == FnInit /\ [][FnNext]_vars

\* the elements of s at the indices of K, in their order
Pick(s, K) ==
    [i \in 1..Cardinality(K) |-> s[CHOOSE k \in K : Cardinality({j \in K : j <= k}) = i]]

\* s without its leading and trailing spaces, with one space for every
\* run of spaces inside
Collapsed(s) ==
    Pick(s, {k \in 1..Len(s) :
                \/ s[k] # " "
                \/ /\ k > 1 /\ s[k - 1] # " "
                   /\ \E j \in (k + 1)..Len(s) : s[j] # " "})

\* the literal of an attribute input without its quotes
AttributeBody == SubSeq(doc, Len(AttName) + 3, Len(doc) - 1)

OnlySpacesAndLetters(s) == \A k \in 1..Len(s) : s[k] = " " \/ IsLetter(s[k])

\* C15: the value of an attribute declared with a type other than CDATA is
\* the literal without its leading and trailing spaces and with every run of
\* spaces inside replaced by one space; the value of an undeclared attribute
\* is the literal with its spaces as they are
C15_DeclaredValueCollapsed ==
    (op.name = "xmlParseAttribute2" /\ OnlySpacesAndLetters(AttributeBody)) =>
        /\ ctxt.rv = AttName
        /\ ctxt.errs = <<>>
        /\ ctxt.rvalue = IF op.normalize = 1 THEN Collapsed(AttributeBody) ELSE AttributeBody
        /\ ctxt.cur = Len(doc) + 1

\* the literal with two leading, three internal and two trailing spaces
\* around a and b, declared: the value is "a b"
C15_SpacedDeclared ==
    /\ op.name = "xmlParseAttribute2" /\ op.normalize = 1
    /\ AttributeBody = SpacedBody
    /\ ctxt.rvalue = <<"a", " ", "b">>

\* the full-range path on the same bytes
NameComplex == xmlParseNameComplex(FnCtxt(doc, {}))

RefIsHex == Len(doc) > 2 /\ doc[3] = "x"

RefDigits == SubSeq(doc, IF RefIsHex THEN 4 ELSE 3, Len(doc) - 1)

DigitsWellFormed ==
    /\ RefDigits # <<>>
    /\ \A k \in 1..Len(RefDigits) :
          IsDigit(RefDigits[k]) \/ (RefIsHex /\ IsHexLetter(RefDigits[k]))

\* the number the digits denote, 0x110000 standing for every larger one
RECURSIVE Denoted(_, _)
Denoted(digits, base) ==
    IF digits = <<>> THEN 0
    ELSE LET v == Denoted(SubSeq(digits, 1, Len(digits) - 1), base) * base
                    + DigitVal(digits[Len(digits)])
         IN  IF v > 1114112 THEN 1114112 ELSE v

RefValue == Denoted(RefDigits, IF RefIsHex THEN 16 ELSE 10)

\* C17: xmlParseCharRef returns the code point that the digits of the
\* reference denote, however many digits there are, when it is a legal
\* character; when the digits are malformed or the value is not a legal
\* character it returns 0 and an error is recorded
C17_CharRefResolved ==
    op.name = "xmlParseCharRef" =>
        IF DigitsWellFormed /\ IS_CHAR_VAL(RefValue)
        THEN ctxt.rv = RefValue /\ ctxt.errs = <<>> /\ ctxt.cur = Len(doc) + 1
        ELSE ctxt.rv = 0 /\ ctxt.errs # <<>>

\* the literal of an attribute value input without its quotes
LiteralBody == SubSeq(doc, 2, Len(doc) - 1)

NoRefNoLt(s) == \A k \in 1..Len(s) : s[k] # "&" /\ s[k] # "<"

\* no blank at either end and no two blanks in a row
RegularBlanks(s) ==
    /\ s # <<>> => ~IS_BLANK_CH(s[1]) /\ ~IS_BLANK_CH(s[Len(s)])
    /\ \A k \in 1..(Len(s) - 1) : ~(IS_BLANK_CH(s[k]) /\ IS_BLANK_CH(s[k + 1]))

\* the value is the bytes of the literal in the input and was not allocated
Aliased ==
    /\ ctxt.ralloc = 0 /\ ctxt.rvalue = LiteralBody
    /\ ctxt.cur = Len(doc) + 1 /\ ctxt.errs = <<>>

\* C20 as stated: a literal without '&' and '<', and when normalizing without
\* irregular runs of blanks, is returned as its own bytes in the input buffer
\* with the allocated flag clear
C20_PlainLiteralAliased ==
    (/\ op.name = "xmlParseAttValueInternal"
     /\ NoRefNoLt(LiteralBody)
     /\ op.normalize = 1 => RegularBlanks(LiteralBody)) => Aliased

\* C20 amended: a literal of bytes from 0x20 to 0x7F without '&' and '<',
\* and when normalizing without a space at either end or two spaces in a
\* row, is returned as its own bytes in the input buffer with the allocated
\* flag clear
C20_PrintableLiteralAliased ==
    (/\ op.name = "xmlParseAttValueInternal"
     /\ NoRefNoLt(LiteralBody)
     /\ \A k \in 1..Len(LiteralBody) : IsPrintable(LiteralBody[k])
     /\ op.normalize = 1 => RegularBlanks(LiteralBody)) => Aliased

\* a literal with a space inside was returned as it is when normalizing
C20_SpacedLiteralAliased ==
    /\ op.name = "xmlParseAttValueInternal" /\ op.normalize = 1
    /\ LiteralBody = <<"a", " ", "a">>
    /\ Aliased


-----------------------------------------------------------------------------
(* Undeclared entities *)

Undeclared(i) ==
    ctxt.errs[i].code \in {"XML_ERR_UNDECLARED_ENTITY", "XML_WAR_UNDECLARED_ENTITY"}

\* the document type declaration of the document has an internal subset
HasInternalSubset ==
    /\ Len(doc) >= Len(DocType) /\ SubSeq(doc, 1, Len(DocType)) = DocType
    /\ \E i \in 1..Len(doc) : doc[i] = "[" /\ \A j \in 1..(i - 1) : doc[j] # ">"

NoFatalError == \A i \in 1..Len(ctxt.errs) : ctxt.errs[i].level # "XML_ERR_FATAL"

\* C18 as stated: the report of a reference to an undeclared entity is fatal
\* exactly when the document has no subset of declarations, internal or
\* external, and no parameter entity reference; otherwise it is not fatal and
\* the document stays well-formed
C18_FatalOnlyWithoutSubset ==
    \A i \in 1..Len(ctxt.errs) :
        Undeclared(i) =>
            /\ ctxt.errs[i].level = "XML_ERR_FATAL" <=>
                   (~HasInternalSubset /\ ctxt.hasExternalSubset = 0 /\ ctxt.hasPErefs = 0)
            /\ ctxt.errs[i].level # "XML_ERR_FATAL" /\ NoFatalError => ctxt.wellFormed = 1

\* C18 as amended: the report of a reference to an undeclared entity is the
\* fatal XML_ERR_UNDECLARED_ENTITY exactly when the document is standalone or
\* has no external subset and no parameter entity reference, an internal
\* subset or not; otherwise it is XML_WAR_UNDECLARED_ENTITY at the level of a
\* recoverable error, and a document with no fatal error stays well-formed
C18_FatalUnlessExternal ==
    \A i \in 1..Len(ctxt.errs) :
        Undeclared(i) =>
            /\ ctxt.errs[i].level = "XML_ERR_FATAL" <=>
                   (ctxt.standalone = 1 \/ (ctxt.hasExternalSubset = 0 /\ ctxt.hasPErefs = 0))
            /\ ctxt.errs[i].level = "XML_ERR_FATAL" <=>
                   ctxt.errs[i].code = "XML_ERR_UNDECLARED_ENTITY"
            /\ ctxt.errs[i].level \in {"XML_ERR_FATAL", "XML_ERR_ERROR"}
            /\ ctxt.errs[i].level # "XML_ERR_FATAL" /\ NoFatalError => ctxt.wellFormed = 1

\* the undeclared entity of <!DOCTYPE a [ ]><a>&u;</a> was reported
C18_FatalAfterInternalSubset ==
    /\ doc = DocEmptySubset
    /\ ctxt.hasExternalSubset = 0
    /\ ctxt.wellFormed = 0
    /\ \E i \in 1..Len(ctxt.errs) :
          ctxt.errs[i].code = "XML_ERR_UNDECLARED_ENTITY" /\ ctxt.errs[i].level = "XML_ERR_FATAL"

-----------------------------------------------------------------------------
(* '<' in attribute values *)

\* the attribute values of the document: <<i, j>> for the quotes at i and j
AttValueSpans ==
    {<<i, j>> \in (1..Len(doc)) \X (1..Len(doc)) :
        /\ i > 1 /\ doc[i - 1] = "=" /\ doc[i] = "\"" /\ j > i /\ doc[j] = "\""
        /\ \A k \in (i + 1)..(j - 1) : doc[k] # "\""}

\* the entities that s refers to
RefsIn(s) ==
    {n \in DOMAIN Entities :
        \E k \in 1..Len(s) : k + Len(n) + 1 <= Len(s) /\ SubSeq(s, k, k + Len(n) + 1) = Ref(n)}

\* s holds '<', or refers to an entity that does, through at most fuel
\* references
RECURSIVE HoldsLt(_, _)
HoldsLt(s, fuel) ==
    \/ \E k \in 1..Len(s) : s[k] = "<"
    \/ fuel > 0 /\ \E n \in RefsIn(s) : HoldsLt(Entities[n], fuel - 1)

LtInAttributeAt(i) == ctxt.errs[i].code = "XML_ERR_LT_IN_ATTRIBUTE"

\* C19: once the parser has read an attribute value that holds '<', or
\* refers directly or through other entities to an entity whose text holds
\* '<', the error XML_ERR_LT_IN_ATTRIBUTE is recorded
C19_LtInAttributeRejected ==
    \A span \in AttValueSpans :
        (/\ HoldsLt(SubSeq(doc, span[1] + 1, span[2] - 1), Cardinality(DOMAIN Entities))
         /\ ctxt.cur > span[2])
            => \E i \in 1..Len(ctxt.errs) : LtInAttributeAt(i)

-----------------------------------------------------------------------------
(* Entities that refer to themselves *)

\* the text s refers to the entity target, directly or through at most fuel
\* other references
RECURSIVE RefersTo(_, _, _)
RefersTo(s, target, fuel) ==
    \/ target \in RefsIn(s)
    \/ fuel > 0 /\ \E n \in RefsIn(s) : RefersTo(Entities[n], target, fuel - 1)

Looping == {n \in DOMAIN Entities : RefersTo(Entities[n], n, Cardinality(DOMAIN Entities))}

\* the index after a reference of the document to an entity that refers to
\* itself
LoopRefEnds ==
    {k + Len(n) + 2 : k \in 1..Len(doc), n \in Looping} \cap
    {e \in 1..(Len(doc) + 1) :
        \E n \in Looping : e > Len(n) + 2 /\ SubSeq(doc, e - Len(n) - 2, e - 1) = Ref(n)}

EntityLoopFatal ==
    \E i \in 1..Len(ctxt.errs) :
        ctxt.errs[i].code = "XML_ERR_ENTITY_LOOP" /\ ctxt.errs[i].level = "XML_ERR_FATAL"

\* C13: once the parser has read a reference to an entity whose text refers
\* to the entity itself, directly or through other entities, and the
\* consumer did not stop it, the expansion has ended, the fatal error
\* XML_ERR_ENTITY_LOOP is recorded and the document is not well-formed
C13_LoopEndsInEntityLoop ==
    \A e \in LoopRefEnds :
        (ctxt.cur >= e /\ ~ctxt.stopped) =>
            /\ ~ctxt.unmodelled
            /\ ctxt.depth = 0
            /\ EntityLoopFatal
            /\ ctxt.wellFormed = 0

\* the reference of <a v="&M;"/> was expanded through M and N down to the
\* limit of depth
C13_MutualLoopCut ==
    /\ doc = DocLoopAttr
    /\ ctxt.cur > Len(doc)
    /\ ~ctxt.stopped
    /\ EntityLoopFatal
    /\ ctxt.nbentities > 40

-----------------------------------------------------------------------------
(* The states of the push driver *)

Move(from, to) == <<"XML_PARSER_" \o from, "XML_PARSER_" \o to>>

\* the table Start -> Misc -> Prolog -> StartTag -> Content <->
\* {CdataSection, EndTag} -> Epilog -> Eof, with Dtd between Misc and Prolog;
\* an error, a stop or the end of the document takes every state to Eof
StateTable ==
    {Move("START", "MISC"), Move("MISC", "PROLOG"), Move("MISC", "DTD"),
     Move("DTD", "PROLOG"), Move("PROLOG", "START_TAG"), Move("START_TAG", "CONTENT"),
     Move("CONTENT", "CDATA_SECTION"), Move("CDATA_SECTION", "CONTENT"),
     Move("CONTENT", "END_TAG"), Move("END_TAG", "CONTENT"),
     Move("CDATA_SECTION", "EPILOG"), Move("END_TAG", "EPILOG")}
    \cup {<<s, "XML_PARSER_EOF">> : s \in DriverStates \ {"XML_PARSER_EOF"}}

BeforeRoot == {"XML_PARSER_START", "XML_PARSER_MISC", "XML_PARSER_DTD", "XML_PARSER_PROLOG"}

\* C21 as claimed: every change of the state of the push driver is a step
\* of the table; the state never goes back from XML_PARSER_START_TAG or a
\* later state to a state before the root element, and XML_PARSER_EPILOG is
\* left only for XML_PARSER_EOF
C21_FollowsTable ==
    driver = "push" =>
        \A m \in ctxt.moves :
            /\ m \in StateTable
            /\ m[1] \notin BeforeRoot => m[2] \notin BeforeRoot
            /\ m[1] = "XML_PARSER_EPILOG" => m[2] = "XML_PARSER_EOF"

\* the changes the push driver and its sub-parsers make out of a state
\* other than XML_PARSER_EOF
DriverTable ==
    StateTable \cup {Move("MISC", "START_TAG"), Move("START_TAG", "EPILOG"),
                     Move("CONTENT", "START_TAG"), Move("CONTENT", "EPILOG")}

\* C21 as amended: every change of the state of the push driver out of a
\* state other than XML_PARSER_EOF is a step of the table with the steps
\* Misc -> StartTag, StartTag -> Epilog, Content -> StartTag and Content ->
\* Epilog added; such a change never goes back
\* from XML_PARSER_START_TAG or a later state to a state before the root
\* element, and leaves XML_PARSER_EPILOG only for XML_PARSER_EOF
C21_FollowsDriverTable ==
    driver = "push" =>
        \A m \in ctxt.moves :
            m[1] # "XML_PARSER_EOF" =>
                /\ m \in DriverTable
                /\ m[1] \notin BeforeRoot => m[2] \notin BeforeRoot
                /\ m[1] = "XML_PARSER_EPILOG" => m[2] = "XML_PARSER_EOF"

\* a document with a child element was pushed to its end: the state went
\* from Content to StartTag and back, and from EndTag through Epilog to Eof
C21_ChildElementPushed ==
    /\ driver = "push"
    /\ ~ctxt.stopped
    /\ {Move("CONTENT", "START_TAG"), Move("START_TAG", "CONTENT"),
        Move("END_TAG", "EPILOG"), Move("EPILOG", "EOF")} \subseteq ctxt.moves
    /\ ctxt.instate = "XML_PARSER_EOF"

-----------------------------------------------------------------------------
(* A prefix bound to the empty namespace name *)

\* no final feed cut the document short: a tag that was parsed was parsed
\* whole
NeverCutShort == driver = "blocking" \/ finals = 0 \/ (finals = 1 /\ fed = Len(doc))

\* the start tags of a document without references, in document order: the
\* k-th of them is the tag of the k-th element start delivered
StartTags ==
    IF ~NeverCutShort \/ \E i \in 1..Len(doc) : doc[i] = "&" THEN {}
    ELSE {i \in 1..(Len(doc) - 1) : doc[i] = "<" /\ xmlIsNameStartChar(doc[i + 1])}

TagOrdinal(i) == Cardinality({j \in StartTags : j <= i})

TagText(i) ==
    SubSeq(doc, i, Min({j \in i..Len(doc) : doc[j] = ">" \/ j = Len(doc)}))

\* the prefixes P that the tag at i declares with xmlns:P=""
EmptyBound(i) ==
    LET T == TagText(i)
        opener == <<" ", "x", "m", "l", "n", "s", ":">>
        value == <<"=", "\"", "\"">>
    IN  {SubSeq(T, p[1] + 7, p[2] - 1) :
            p \in {q \in (1..Len(T)) \X (1..Len(T)) :
                      /\ q[1] + 7 < q[2] /\ q[2] + 2 <= Len(T)
                      /\ SubSeq(T, q[1], q[1] + 6) = opener
                      /\ SubSeq(T, q[2], q[2] + 2) = value
                      /\ \A k \in (q[1] + 7)..(q[2] - 1) :
                            xmlIsNameChar(T[k]) /\ T[k] # ":"}}

\* the element starts delivered for tags that bind a prefix to the empty
\* namespace name: the index of the event and the prefix
EmptyBindings ==
    {b \in (1..Len(ctxt.events)) \X UNION {EmptyBound(i) : i \in StartTags} :
        /\ ctxt.events[b[1]].kind = "startElementNs"
        /\ \E i \in StartTags :
              /\ b[2] \in EmptyBound(i)
              /\ TagOrdinal(i) = Cardinality({k \in 1..b[1] :
                                                ctxt.events[k].kind = "startElementNs"})}

\* the URIs the element start e carries for the prefix P: that of the
\* element name and those of the attributes
LookedUp(e, P) ==
    (IF e.prefix = P THEN {e.URI} ELSE {})
    \cup {e.attributes[i].URI : i \in {j \in 1..Len(e.attributes) :
                                            e.attributes[j].prefix = P}}

\* C22 as claimed: in an element whose tag, read whole, binds the prefix P to the empty
\* namespace name, P is looked up to no namespace, whatever an enclosing
\* element binds it to
C22_EmptyURIUndeclares ==
    \A b \in EmptyBindings : LookedUp(ctxt.events[b[1]], b[2]) \subseteq {NULL}

\* C22 as amended: in a tag read whole, binding the prefix P to the empty
\* namespace name is the namespace error XML_NS_ERR_XML_NAMESPACE and
\* declares nothing: the element start carries no declaration of P, and P is
\* looked up to what the enclosing elements bind it to
C22_EmptyURIRejected ==
    \A b \in EmptyBindings :
        LET e == ctxt.events[b[1]]
        IN  /\ \A i \in 1..Len(e.namespaces) : i % 2 = 1 => e.namespaces[i] # b[2]
            /\ \E i \in 1..Len(ctxt.errs) :
                  /\ ctxt.errs[i].code = "XML_NS_ERR_XML_NAMESPACE"
                  /\ ctxt.errs[i].at < b[1]
            /\ LookedUp(e, b[2]) \subseteq
                  {Resolved(OpenDecls(SubSeq(ctxt.events, 1, b[1] - 1)), b[2])}

\* the element p:b of <a xmlns:p="u:"><p:b xmlns:p=""/></a> was delivered
\* in the namespace u: of the enclosing element
C22_OuterBindingSeen ==
    /\ doc = DocUndeclare
    /\ \E b \in EmptyBindings :
          /\ b[2] = <<"p">>
          /\ LookedUp(ctxt.events[b[1]], b[2]) = {<<"u", ":">>}
    /\ ctxt.nsWellFormed = 0 /\ ctxt.wellFormed = 1


-----------------------------------------------------------------------------
(* C23: the remembered scan position of the lookahead *)

\* C23: in every sequence of feeds, each terminator search resumed from the
\* remembered scan position gave the answer (found or not, and the offset)
\* of a search started at the read position: no search has passed over a
\* terminator lying between the read position and the remembered position
C23_ResumedSearchSameAnswer ==
    driver = "push" => ~ctxt.memoSkipped


-----------------------------------------------------------------------------
(* C24, C25, C26: the stacks around an element *)

Abandoned == {"malformed", "missingGt", "premature"}

\* C24: an element whose parsing failed partway (malformed start tag,
\* missing '>' at the end of the start tag, premature end of data) leaves
\* the name stack and the namespace stack as deep as they were just before
\* its start tag, in both drivers
C24_FailedElementRestoresStacks ==
    \A t \in ctxt.tagLog :
        t.kind \in Abandoned => t.after[1] = t.before[1] /\ t.after[2] = t.before[2]


Aborted == {"abortStartTag", "abortContent"}

-----------------------------------------------------------------------------
(* C27: the depth of the entities that are being expanded.  The documents  *)
(* that refer to an entity without end are parsed with and without the     *)
(* option XML_PARSE_HUGE.                                                  *)

LoopDocs == {DocLoop, DocLoopAttr}

DepthInit ==
    /\ doc \in LoopDocs
    /\ driver \in {"push", "blocking"}
    /\ \E recovery \in {0, 1}, stopAt \in StopAts, options \in {{}, {"XML_PARSE_HUGE"}} :
          ctxt = xmlCtxtUseOptions(
                     IF driver = "push" THEN xmlCreatePushParserCtxt(recovery, stopAt)
                     ELSE CreateMemoryParserCtxt(doc, recovery, stopAt),
                     options)
    /\ fed = 0
    /\ ret = "0"
    /\ op = Created
    /\ finals = 0

DepthSpec == DepthInit /\ [][Next]_vars

\* C27: whatever the options, XML_PARSE_HUGE among them or not, no entity
\* is expanded at a depth over the ceiling of 1024, nor over 40 without
\* XML_PARSE_HUGE; an expansion that was refused for its depth has raised
\* the fatal error XML_ERR_ENTITY_LOOP
C27_DepthUnderCeiling ==
    /\ ctxt.deepest <= 1024
    /\ ~Huge(ctxt) => ctxt.deepest <= 40
    /\ ctxt.refused => EntityLoopFatal

\* under XML_PARSE_HUGE the expansion went down to the ceiling and was
\* refused there
C27_CeilingReachedWhenHuge ==
    /\ Huge(ctxt)
    /\ ctxt.deepest = 1024
    /\ ctxt.refused
    /\ EntityLoopFatal
    /\ ~ctxt.unmodelled


-----------------------------------------------------------------------------
(* C28: the progress test of the content loops *)

InternalErrorFatal ==
    \E i \in 1..Len(ctxt.errs) :
        ctxt.errs[i].code = "XML_ERR_INTERNAL_ERROR" /\ ctxt.errs[i].level = "XML_ERR_FATAL"

\* C28: once a turn of a content loop (xmlParseContent, or the content case
\* of the push driver after the construct it dispatched to) has left the
\* read position where it was, the fatal error XML_ERR_INTERNAL_ERROR is
\* recorded; and no turn starts where the turn before it started
C28_StalledTurnIsFatal ==
    /\ ctxt.stalled => InternalErrorFatal
    /\ ~ctxt.repeated

\* the push driver met <!-x-> in content: the text parser was called on
\* '<', read nothing, and the driver stopped at that position
C28_StalledOnBang ==
    /\ driver = "push"
    /\ doc = DocBang
    /\ ctxt.stalled
    /\ ctxt.turnAt = 4
    /\ InternalErrorFatal
    /\ ctxt.instate = "XML_PARSER_EOF"
    /\ ctxt.wellFormed = 0


-----------------------------------------------------------------------------
(* C29: tags are parsed from complete data before the final chunk *)

\* C29 as stated: before the final chunk the push driver begins to parse a
\* start tag or an end tag only when the '>' that ends the tag is in the
\* buffer
C29_TagBegunOnlyWhenClosed ==
    \A b \in ctxt.begun : b.closed

\* C29: before the final chunk the push driver begins to parse a start tag
\* or an end tag only when a '>' after the read position is in the buffer;
\* and when the buffer holds no further '<', that '>' is the one that ends
\* the tag
C29_TagBegunOnlyWithGt ==
    \A b \in ctxt.begun : b.gt /\ (b.lone => b.closed)

\* before the final chunk a start tag was parsed that is followed by
\* nothing in the buffer, and an end tag
C29_TagsBegunBeforeFinal ==
    /\ driver = "push"
    /\ \E b \in ctxt.begun : b.kind = "start" /\ b.lone /\ b.closed
    /\ \E b \in ctxt.begun : b.kind = "end" /\ b.closed


-----------------------------------------------------------------------------
(* The stack of input frames.  The parsers that open a frame, those of the *)
(* parameter-entity references of a document type declaration, are outside *)
(* the input domain of the documents above, so the frame machinery is run  *)
(* on its own: a frame is opened with xmlPushInput as xmlParsePEReference  *)
(* does, the parsers called by a turn of the content loop move in the open *)
(* frame by the macros SKIP and NEXT1 in any order, and the turn ends as   *)
(* the loops of xmlParseContent and xmlParseTryOrFinish end it.            *)

MaxFrames == 3

\* buf and cur are the open frame (ctxt->input), inputTab holds the frames
\* under it with the positions they were left at.  Ghosts: ended and
\* endedNr, the loop found the data at its end with endedNr frames open;
\* unread, a frame was closed before its last character was read; resumed,
\* a frame was closed and the one under it had text left
FrameCtxt(buffer, progressive) ==
    [buf |-> buffer, cur |-> 1, inputTab |-> <<>>, inputNr |-> 1,
     instate |-> "XML_PARSER_CONTENT", progressive |-> progressive,
     ended |-> FALSE, endedNr |-> 0, unread |-> FALSE, resumed |-> FALSE]

inputPush(c, value) ==
    [c EXCEPT !.inputTab = IF c.inputNr > 0 THEN Append(@, [buf |-> c.buf, cur |-> c.cur])
                           ELSE @,
              !.buf = value, !.cur = 1, !.inputNr = @ + 1]

inputPop(c) ==
    IF c.inputNr <= 0 THEN c
    ELSE IF c.inputNr = 1
    THEN [c EXCEPT !.buf = <<>>, !.cur = 1, !.inputNr = 0,
                   !.unread = @ \/ c.cur <= Len(c.buf)]
    ELSE LET under == c.inputTab[Len(c.inputTab)]
         IN  [c EXCEPT !.buf = under.buf, !.cur = under.cur,
                       !.inputTab = SubSeq(@, 1, Len(@) - 1), !.inputNr = @ - 1,
                       !.unread = @ \/ c.cur <= Len(c.buf),
                       !.resumed = @ \/ under.cur <= Len(under.buf)]

\* no frame of the input domain can be refilled: the text of an entity has
\* no buffer behind it, and the document is in memory as a whole
xmlParserInputGrow(c) == IF c.inputNr > 1 THEN -1 ELSE 0

\* xmlPopInput without its test of inputNr
xmlPopInput_last(c) == inputPop(c)

RECURSIVE xmlPopInput(_)
xmlPopInput(c) ==
    IF c.inputNr <= 1 THEN c
    ELSE With([c1 \in {inputPop(c)} |->
             IF RAW(c1) = NUL /\ xmlParserInputGrow(c1) <= 0 THEN xmlPopInput(c1) ELSE c1])

\* the frames are shorter than INPUT_CHUNK and than XML_MAX_LOOKUP_LIMIT
xmlGROW(c) ==
    IF RAW(c) = NUL /\ xmlParserInputGrow(c) <= 0 THEN xmlPopInput(c) ELSE c

GROW(c) == IF c.progressive = "0" THEN xmlGROW(c) ELSE c

xmlPushInput(c, input) ==
    With([c1 \in {inputPush(c, input)} |->
        IF c1.instate = "XML_PARSER_EOF" THEN c1 ELSE GROW(c1)])

\* the macro SKIP where frames may be open; no '%' is in the texts
SKIP_frames(c, val) ==
    With([c1 \in {[c EXCEPT !.cur = @ + val]} |->
        IF RAW(c1) = NUL /\ xmlParserInputGrow(c1) <= 0 THEN xmlPopInput(c1) ELSE c1])

\* a loop that closes the frames above the document as they end, then
\* closes the document too
RECURSIVE PopFinished_all(_)
PopFinished_all(c) ==
    IF RAW(c) = NUL /\ c.inputNr > 0 THEN PopFinished_all(inputPop(c)) ELSE c

\* while((RAW == 0) && (ctxt->inputNr > 1)) xmlPopInput(ctxt);
RECURSIVE PopFinished(_)
PopFinished(c) ==
    IF RAW(c) = NUL /\ c.inputNr > 1 THEN PopFinished(xmlPopInput(c)) ELSE c

FrameDocs == {<<"x">>, <<"x", "y">>, <<"x", "y", "z">>}

\* the replacement texts of the entities
FrameTexts == {<<>>, <<"t">>, <<"t", "u">>}

FrameInit ==
    /\ driver \in {"push", "blocking"}
    /\ doc \in FrameDocs
    /\ ctxt = FrameCtxt(doc, IF driver = "push" THEN "1" ELSE "0")
    /\ fed = Len(doc)
    /\ ret = "0"
    /\ op = Created
    /\ finals = 0

Framed(name) == [name |-> name, terminate |-> FALSE]

\* a reference opens a frame on the text of its entity
FrameRefer ==
    /\ ~ctxt.ended
    /\ ctxt.inputNr >= 1
    /\ ctxt.inputNr < MaxFrames
    /\ \E text \in FrameTexts : ctxt' = xmlPushInput(ctxt, text)
    /\ op' = Framed("xmlPushInput")
    /\ UNCHANGED <<doc, driver, fed, ret, finals>>

\* a parser reads val characters of the open frame with SKIP
FrameSkip ==
    /\ ~ctxt.ended
    /\ \E val \in 1..(Len(ctxt.buf) - ctxt.cur + 1) : ctxt' = SKIP_frames(ctxt, val)
    /\ op' = Framed("SKIP")
    /\ UNCHANGED <<doc, driver, fed, ret, finals>>

\* a parser reads one character of the open frame with NEXT1
FrameNext1 ==
    /\ ~ctxt.ended
    /\ RAW(ctxt) # NUL
    /\ ctxt' = NEXT1(ctxt)
    /\ op' = Framed("NEXT1")
    /\ UNCHANGED <<doc, driver, fed, ret, finals>>

\* the end of a turn of xmlParseContent and the test of the next turn
FrameContentTurn ==
    /\ driver = "blocking"
    /\ ~ctxt.ended
    /\ ctxt.inputNr >= 1
    /\ ctxt' = With([c1 \in {PopFinished(GROW(ctxt))} |->
                   IF RAW(c1) = NUL
                   THEN [c1 EXCEPT !.ended = TRUE, !.endedNr = c1.inputNr]
                   ELSE c1])
    /\ op' = Framed("xmlParseContent")
    /\ UNCHANGED <<doc, driver, fed, ret, finals>>

\* the head of a turn of xmlParseTryOrFinish
FrameTryTurn ==
    /\ driver = "push"
    /\ ~ctxt.ended
    /\ ctxt' = With([c1 \in {PopFinished(ctxt)} |->
                   IF Avail(c1) < 1
                   THEN [c1 EXCEPT !.ended = TRUE, !.endedNr = c1.inputNr]
                   ELSE c1])
    /\ op' = Framed("xmlParseTryOrFinish")
    /\ UNCHANGED <<doc, driver, fed, ret, finals>>

FrameNext ==
    \/ FrameRefer
    \/ FrameSkip
    \/ FrameNext1
    \/ FrameContentTurn
    \/ FrameTryTurn

FrameSpec == FrameInit /\ [][FrameNext]_vars

-----------------------------------------------------------------------------
(* C30: the end of the text of an entity *)

\* C30: the document's frame is never closed; a frame above it is closed
\* only once its text has been read to the end, and the frame under it is
\* then read on from where it was left; and a loop finds the data at its
\* end only when the document's frame is the one open
C30_FrameEndIsNotDocumentEnd ==
    /\ ctxt.inputNr >= 1
    /\ Len(ctxt.inputTab) = ctxt.inputNr - 1
    /\ ctxt.inputTab # <<>> => ctxt.inputTab[1].buf = doc
    /\ ctxt.inputTab = <<>> => ctxt.buf = doc
    /\ ~ctxt.unread
    /\ ctxt.ended => ctxt.endedNr = 1 /\ ctxt.cur = Len(doc) + 1

\* the text of an entity ended while the document had text left: its frame
\* was closed and the document was read to its end
C30_ResumedAfterEntity ==
    /\ ctxt.resumed
    /\ op.name \in {"xmlParseContent", "xmlParseTryOrFinish"}
    /\ ctxt.ended
    /\ ctxt.inputNr = 1


-----------------------------------------------------------------------------
(* C31: references to the ampersand in attribute values.  The attribute    *)
(* parsers are applied to literals that hold a reference to a predefined   *)
(* entity or a character reference, with and without XML_PARSE_NOENT.      *)

AmpRefs ==
    {<<"&", "a", "m", "p", ";">>, <<"&", "#", "3", "8", ";">>,
     <<"&", "#", "x", "2", "6", ";">>, <<"&", "l", "t", ";">>,
     <<"&", "#", "6", "0", ";">>}

AmpBodies ==
    {pre \o ref \o post : pre \in {<<>>, <<"a">>}, ref \in AmpRefs,
                          post \in {<<>>, <<"b">>, <<" ">>, <<"&", "a", "m", "p", ";">>}}

AmpLiterals == {Quoted(q, body) : q \in {"\"", "'"}, body \in AmpBodies}

AmpInit ==
    /\ driver \in {"xmlParseAttValueInternal", "xmlParseAttribute2"}
    /\ doc \in IF driver = "xmlParseAttribute2"
               THEN {AttName \o <<"=">> \o lit : lit \in AmpLiterals}
               ELSE AmpLiterals
    /\ \E special \in {{}, Declared}, options \in {{}, {"XML_PARSE_NOENT"}} :
          /\ driver # "xmlParseAttribute2" => special = {}
          /\ ctxt = xmlCtxtUseOptions(FnCtxt(doc, special), options)
    /\ fed = 0
    /\ ret = "0"
    /\ op = Created
    /\ finals = 0

AmpNext ==
    \/ \E normalize \in {0, 1} : ParseAttValueInternal(normalize)
    \/ ParseAttribute2

AmpSpec == AmpInit /\ [][AmpNext]_vars

\* a value was returned for the literal
ValueReturned ==
    /\ op.name \in {"xmlParseAttValueInternal", "xmlParseAttribute2"}
    /\ ctxt.rvalue # NULL

\* every '&' of val begins the character reference &#38;
NoBareAmp(val) ==
    \A i \in 1..Len(val) :
        val[i] = "&" => i + 4 <= Len(val) /\ SubSeq(val, i, i + 4) = CharRefAmp

\* the number of references to the ampersand in the literal
AmpRefCount ==
    Cardinality({i \in 1..Len(doc) :
        \E r \in {<<"&", "a", "m", "p", ";">>, <<"&", "#", "3", "8", ";">>,
                  <<"&", "#", "x", "2", "6", ";">>} :
            i + Len(r) - 1 <= Len(doc) /\ SubSeq(doc, i, i + Len(r) - 1) = r})

\* C31 as stated: a reference to the ampersand in an attribute value, by
\* name or by number, is in the returned value as a reference and never as
\* the character '&'
C31_AmpStaysReference ==
    ValueReturned => NoBareAmp(ctxt.rvalue)

\* C31: unless entities are substituted (replaceEntities, set by
\* XML_PARSE_NOENT), a reference to the ampersand in an attribute value, by
\* name or by number, is in the returned value as the reference &#38; and
\* never as the character '&'
C31_AmpStaysReferenceUnlessSubstituted ==
    (ValueReturned /\ ctxt.replaceEntities = 0) =>
        /\ NoBareAmp(ctxt.rvalue)
        /\ Cardinality({i \in 1..Len(ctxt.rvalue) : ctxt.rvalue[i] = "&"}) = AmpRefCount

\* a&amp;b was returned as a&#38;b
C31_AmpReturnedAsCharRef ==
    /\ ValueReturned
    /\ ctxt.replaceEntities = 0
    /\ doc = <<"\"", "a", "&", "a", "m", "p", ";", "b", "\"">>
    /\ ctxt.rvalue = <<"a", "&", "#", "3", "8", ";", "b">>


-----------------------------------------------------------------------------
(* Attribute values kept by reference while the input buffer moves.  A     *)
(* start tag is parsed by the blocking driver over an input that is read   *)
(* from memory or through a read callback.  The bytes are left out: an     *)
(* attribute is its length, whether its value is copied (alloc) and how    *)
(* many bytes are loaded behind it when it has been read; a buffer is its  *)
(* placement (base), the offset of the read position and the bytes loaded  *)
(* ahead of it.  Where xmlParserInputGrow loads through a read callback    *)
(* the buffer may be put at another place.                                 *)

MaxGrows == 5

\* relocs: the calls of xmlParserInputGrow, by number, that move the
\* buffer.  Ghost: stale, an element-start event delivered a value by
\* reference that was recorded in another placement of the buffer
BufCtxt(recovery, options, offset, relocs) ==
    [xmlCtxtUseOptions(NewParserCtxt(recovery, 0), options)
        EXCEPT !.instate = "XML_PARSER_CONTENT", !.cur = offset]
    @@ [base |-> 0, ahead |-> INPUT_CHUNK, relocs |-> relocs, grows |-> 0,
        atts |-> <<>>, reparsed |-> 0, delivered |-> FALSE, stale |-> FALSE]

\* the input is a buffer in memory: its read callback is xmlNop
Memory == driver = "memory"

\* xmlParserInputGrow: nothing is read from memory; a read callback loads
\* bytes and the buffer may move
xmlParserInputGrow_io(c) ==
    IF Memory THEN c
    ELSE [c EXCEPT !.grows = @ + 1,
                   !.ahead = @ + INPUT_CHUNK,
                   !.base = IF (c.grows + 1) \in c.relocs THEN @ + 1 ELSE @]

\* xmlParserInputShrink: the consumed bytes but the last LINE_LEN are
\* dropped from the front of the buffer
xmlParserInputShrink_io(c) ==
    IF c.cur <= INPUT_CHUNK THEN c
    ELSE [c EXCEPT !.base = @ + 1, !.cur = LINE_LEN]

xmlSHRINK_io(c) == xmlParserInputShrink_io(c)

SHRINK_io(c) ==
    IF c.progressive = "0" /\ c.cur > 2 * INPUT_CHUNK /\ c.ahead < 2 * INPUT_CHUNK
    THEN xmlSHRINK_io(c) ELSE c

xmlGROW_io(c) ==
    xmlParserInputGrow_io(
        IF (c.ahead > XML_MAX_LOOKUP_LIMIT \/ c.cur > XML_MAX_LOOKUP_LIMIT)
           /\ ~Memory /\ ~Huge(c)
        THEN SetState(xmlFatalErr(c, "XML_ERR_INTERNAL_ERROR"), "XML_PARSER_EOF")
        ELSE c)

GROW_io(c) ==
    IF c.progressive = "0" /\ c.ahead < INPUT_CHUNK THEN xmlGROW_io(c) ELSE c

\* the bytes read: n bytes further, n loaded bytes fewer ahead
ReadBytes(c, n) == [c EXCEPT !.cur = @ + n, !.ahead = IF @ > n THEN @ - n ELSE 0]

\* xmlParseAttribute2 on the attribute a, of a.len bytes up to the closing
\* quote.  The value is returned by reference when it needs no copy and
\* lies in the loaded bytes; a copied value is read by
\* xmlParseAttValueComplex, with its GROW after each character.
\* rvalue: NULL or the value, ralloc: the value is a copy
AttributeRead(c, a) ==
    With([c1 \in {GROW_io(c)} |->
        IF c1.instate = "XML_PARSER_EOF" THEN [c1 EXCEPT !.rvalue = NULL]
        ELSE IF a.alloc = 0 /\ a.len < c1.ahead
        THEN [ReadBytes(c1, a.len + 1) EXCEPT !.rvalue = <<"v">>, !.ralloc = 0]
        ELSE With([c2 \in {GROW_io(ReadBytes(c1, a.len))} |->
                 IF c2.instate = "XML_PARSER_EOF" THEN [c2 EXCEPT !.rvalue = NULL]
                 ELSE [ReadBytes(c2, 1) EXCEPT !.rvalue = <<"v">>, !.ralloc = 1]])])

\* SAX: Start of Element
StartElementIO(c) ==
    IF c.disableSAX # 0 THEN c
    ELSE [c EXCEPT !.delivered = TRUE,
                   !.stale = @ \/ \E k \in 1..Len(c.atts) :
                                     c.atts[k].alloc = 0 /\ c.atts[k].base # c.base]

\* the start tag with the attributes of tag, from the label reparse on.
\* i is the place in the function: 0 at reparse, -1 at the name, then the
\* number of the attribute to read; base and cur are the locals of
\* xmlParseStartTag2.  rv: 1 for the name, 0 for no name
RECURSIVE StartTagIO(_, _, _, _, _)
StartTagIO(c, tag, i, base, cur) ==
    LET base_changed(x) ==
            IF x.wellFormed = 1
            THEN StartTagIO([x EXCEPT !.cur = cur, !.reparsed = @ + 1], tag, 0, 0, 0)
            ELSE [x EXCEPT !.cur = cur, !.rv = 0]
        done(x) == [StartElementIO(x) EXCEPT !.rv = 1]
    IN  IF i = 0
        THEN With([c1 \in {SHRINK_io(c)} |->
                 StartTagIO([c1 EXCEPT !.atts = <<>>], tag, -1, c1.base, c1.cur)])
        ELSE IF i = -1
        THEN With([c2 \in {GROW_io(ReadBytes(c, 2))} |->
                 IF c2.base # base THEN base_changed(c2)
                 ELSE StartTagIO(c2, tag, 1, base, cur)])
        ELSE IF i > Len(tag) \/ c.instate = "XML_PARSER_EOF" THEN done(c)
        ELSE With([c1 \in {AttributeRead(c, tag[i])} |->
                 IF c1.base # base THEN base_changed(c1)
                 ELSE With([c2 \in {IF c1.rvalue = NULL THEN c1
                                    ELSE [c1 EXCEPT !.atts = Append(@,
                                             [base |-> c1.base, alloc |-> c1.ralloc])]} |->
                          With([c3 \in {GROW_io(c2)} |->
                              IF c3.instate = "XML_PARSER_EOF" THEN done(c3)
                              ELSE IF c3.base # base THEN base_changed(c3)
                              ELSE IF i = Len(tag) THEN done(c3)
                              ELSE With([c4 \in {GROW_io(ReadBytes(c3, 1))} |->
                                       IF c4.base # base THEN base_changed(c4)
                                       ELSE StartTagIO(c4, tag, i + 1, base, cur)])])])])

MaxAtts == 3

\* short values, one that needs no copy and one that does, a value that
\* needs no copy and is longer than INPUT_CHUNK, and a value that ends a
\* little before XML_MAX_LOOKUP_LIMIT
BufAttrs ==
    {[len |-> 8, alloc |-> 0], [len |-> 8, alloc |-> 1],
     [len |-> INPUT_CHUNK + 50, alloc |-> 0],
     [len |-> XML_MAX_LOOKUP_LIMIT - 100, alloc |-> 1]}

BufTags == Strings(BufAttrs, MaxAtts)

BufInit ==
    /\ driver \in {"memory", "io"}
    /\ doc \in BufTags
    /\ \E recovery \in {0, 1}, options \in {{}, {"XML_PARSE_HUGE"}},
          offset \in {1, 3 * INPUT_CHUNK},
          relocs \in SUBSET (1..MaxGrows) :
          /\ driver = "memory" => relocs = {}
          /\ ctxt = BufCtxt(recovery, options, offset, relocs)
    /\ fed = 0
    /\ ret = "0"
    /\ op = Created
    /\ finals = 0

\* xmlParseStartTag2 on the tag
BufStartTag ==
    /\ op = Created
    /\ ctxt' = StartTagIO(ctxt, doc, 0, 0, 0)
    /\ op' = Framed("xmlParseStartTag2")
    /\ UNCHANGED <<doc, driver, fed, ret, finals>>

BufNext == BufStartTag

BufSpec == BufInit /\ [][BufNext]_vars

-----------------------------------------------------------------------------
(* C32: attribute values kept by reference *)

\* C32: no element-start event delivers an attribute value by reference
\* that was recorded in a placement of the buffer other than the one at the
\* time of the event
C32_NoStaleValueDelivered == ~ctxt.stale

-----------------------------------------------------------------------------
(* C33: the state after the final call *)

\* C33: after a call of xmlParseChunk with terminate set has returned the
\* state of the parser is XML_PARSER_EOF
C33_FinalFeedEndsInEof ==
    (driver = "push" /\ op.name = "feed" /\ op.terminate) => ctxt.instate = "XML_PARSER_EOF"

\* the call returned by one of the tests of a stored error
\* (parser.c:10749-10750, 10838-10839)
StoredErrorReturn == ctxt.errNo # "XML_ERR_OK" /\ ctxt.disableSAX = 1

\* C33 (amended): after a call of xmlParseChunk with terminate set has
\* returned the state of the parser is XML_PARSER_EOF, unless a fatal error
\* has disabled the callbacks (errNo is set and disableSAX is 1)
C33_FinalFeedEndsInEofUnlessDisabled ==
    (driver = "push" /\ op.name = "feed" /\ op.terminate /\ ~StoredErrorReturn)
        => ctxt.instate = "XML_PARSER_EOF"

\* a final call in recovery mode ended in XML_PARSER_EOF after an error
C33_FinalFeedWithErrorInEof ==
    /\ driver = "push" /\ op.name = "feed" /\ op.terminate
    /\ ctxt.errNo # "XML_ERR_OK" /\ ~StoredErrorReturn
    /\ ctxt.instate = "XML_PARSER_EOF"

-----------------------------------------------------------------------------
(* C34: endDocument *)

\* the endDocument events delivered so far
EndDocuments == {k \in 1..Len(ctxt.events) : ctxt.events[k].kind = "endDocument"}

\* C34: a push context delivers endDocument at most once, whatever the
\* calls of xmlParseChunk and the errors
C34_EndDocumentAtMostOnce == driver = "push" => Cardinality(EndDocuments) <= 1

\* endDocument was delivered, and calls of xmlParseChunk with terminate
\* set came after it
C34_EndDocumentThenFinalFeeds ==
    /\ driver = "push" /\ op.name = "feed" /\ op.terminate /\ finals > 1
    /\ Cardinality(EndDocuments) = 1
    /\ ctxt.errNo # "XML_ERR_OK"

-----------------------------------------------------------------------------
(* C35: the name stack inside the root element *)

InElementStates == {"XML_PARSER_CONTENT", "XML_PARSER_END_TAG", "XML_PARSER_CDATA_SECTION"}

\* C35: in a push context in the state XML_PARSER_CONTENT,
\* XML_PARSER_END_TAG or XML_PARSER_CDATA_SECTION the name stack is not
\* empty
C35_NameOpenInsideElement ==
    (driver = "push" /\ ctxt.instate \in InElementStates) => Len(ctxt.nameTab) > 0

\* a call returned in XML_PARSER_END_TAG, before an end tag that is not
\* complete, inside a nested element
C35_WaitingInEndTag ==
    /\ driver = "push" /\ op.name = "feed"
    /\ ctxt.instate = "XML_PARSER_END_TAG"
    /\ Len(ctxt.nameTab) > 1

-----------------------------------------------------------------------------
(* C36: the stack of xml:space values *)

\* C36: in a push context in the state XML_PARSER_CONTENT the stack of
\* xml:space values is as much deeper than the name stack as in a new
\* context, where it holds one entry and the name stack none
C36_SpaceEntryPerOpenElement ==
    (driver = "push" /\ ctxt.instate = "XML_PARSER_CONTENT")
        => Len(ctxt.spaceTab) - Len(ctxt.nameTab)
               = Len(NewParserCtxt(0, 0).spaceTab) - Len(NewParserCtxt(0, 0).nameTab)

-----------------------------------------------------------------------------
(* C37: the search for the end of the internal subset *)

MaxSubset == 6

SubsetAlphabet == {"<", "!", "-", "]", ">", "'"}

\* the bytes from the '[' of the subset on, without the '['
SubsetTexts == Strings(SubsetAlphabet, MaxSubset)

SubsetInit ==
    /\ driver = "subset"
    /\ doc \in SubsetTexts
    /\ ctxt = [xmlCreatePushParserCtxt(0, 0) EXCEPT !.instate = "XML_PARSER_DTD"]
    /\ fed = 0
    /\ ret = "0"
    /\ op = Created
    /\ finals = 0

\* xmlParseChunk of n more bytes in XML_PARSER_DTD, up to the label
\* found_end_int_subset.  ret: "found" once the search has found the end
SubsetFeed(n) ==
    /\ ret # "found"
    /\ fed + n <= Len(doc)
    /\ fed' = fed + n
    /\ \E c \in {WithFed} :
          \E s \in {SubsetLookup(c)} :
              /\ ctxt' = IF s.found THEN [c EXCEPT !.checkIndex = 0] ELSE SubsetNotFound(c, s)
              /\ ret' = IF s.found THEN "found" ELSE "0"
    /\ op' = Framed("xmlParseChunk")
    /\ UNCHANGED <<doc, driver, finals>>

SubsetNext == \E n \in 1..MaxSubset : SubsetFeed(n)

SubsetSpec == SubsetInit /\ [][SubsetNext]_vars

-----------------------------------------------------------------------------
(* C38: the depth of the elements *)

\* how far over xmlParserMaxDepth the documents nest
MaxOver == 2

\* start tags of the element a, one inside the other, and nothing else
NestDoc(n) == [i \in 1..(3 * n) |-> <<"<", "a", ">">>[((i - 1) % 3) + 1]]

NestDocs == {NestDoc(n) : n \in xmlParserMaxDepth..(xmlParserMaxDepth + MaxOver)}

\* xmlParseElement from its entry to the xmlParseElement that its
\* xmlParseContent calls, on a start tag that ends in '>'
ElementEntered(c) ==
    IF Len(c.nameTab) > xmlParserMaxDepth /\ ~Huge(c) THEN c
    ELSE With([c2 \in {xmlParseStartTag2(
                         spacePush(c, IF Len(c.spaceTab) = 0 \/ SpaceTop(c) = -2
                                      THEN -1 ELSE SpaceTop(c)))} |->
             NEXT1(namePush(c2, c2.rv))])

\* n calls of xmlParseElement, one inside the other
RECURSIVE ElementsEntered(_, _)
ElementsEntered(c, n) ==
    IF c.instate = "XML_PARSER_EOF" \/ n = 0 THEN c
    ELSE IF n = 1 THEN ElementEntered(c)
    ELSE ElementsEntered(ElementsEntered(c, n \div 2), n - (n \div 2))

\* xmlParseDocument down to the call of xmlParseElement for the element
\* number n + 1
DocumentEntered(c, n) ==
    ElementsEntered(SetState(xmlParseMisc(StartDocument(c)), "XML_PARSER_CONTENT"), n)

\* a push context, or xmlParseDocument on the way down, inside all the
\* elements of the document but the last over, at most xmlParserMaxDepth
NestInit ==
    /\ doc \in NestDocs
    /\ driver \in {"push", "blocking"}
    /\ \E recovery \in {0, 1}, options \in {{}, {"XML_PARSE_HUGE"}}, over \in MaxOver..(MaxOver + 1) :
          ctxt = IF driver = "push"
                 THEN xmlCtxtUseOptions(xmlCreatePushParserCtxt(recovery, 0), options)
                 ELSE DocumentEntered(
                          xmlCtxtUseOptions(CreateMemoryParserCtxt(doc, recovery, 0), options),
                          Max({0, Len(doc) \div 3 - over}))
    /\ fed = 0
    /\ ret = "0"
    /\ op = Created
    /\ finals = 0

\* the xmlParseElement calls that are left, with their returns
ParseElement ==
    /\ driver = "blocking"
    /\ op = Created
    /\ ctxt' = xmlParseElement(ctxt)
    /\ op' = Framed("xmlParseElement")
    /\ UNCHANGED <<doc, driver, fed, ret, finals>>

\* the document is fed one start tag at a time
NestNext ==
    \/ \E terminate \in BOOLEAN : Feed(3, terminate)
    \/ ParseElement

NestSpec == NestInit /\ [][NestNext]_vars

\* the elements that were open at the same time: the names on the stack,
\* and for each element that xmlParseElement has left, the names under it
\* and its own
OpenPeak ==
    Max({Len(ctxt.nameTab)}
        \cup {t.before[1] + 1 : t \in {u \in ctxt.tagLog :
                                         u.kind \notin {"abortStartTag", "malformed"}}})

\* the fatal error "Excessive depth in document" stopped the parse
ExcessiveDepthFatal ==
    /\ \E k \in 1..Len(ctxt.errs) : /\ ctxt.errs[k].code = "XML_ERR_INTERNAL_ERROR"
                                    /\ ctxt.errs[k].level = "XML_ERR_FATAL"
    /\ ctxt.instate = "XML_PARSER_EOF"

\* C38: without XML_PARSE_HUGE no more than xmlParserMaxDepth elements are
\* open at the same time, in xmlParseDocument and in xmlParseChunk, and a
\* document that nests deeper has been stopped by a fatal error once its
\* data is parsed
C38_OpenElementsUnderMaxDepth ==
    ~Huge(ctxt) =>
        /\ OpenPeak <= xmlParserMaxDepth
        /\ ((op.name = "xmlParseElement" \/ fed = Len(doc))
             /\ Len(doc) > 3 * xmlParserMaxDepth)
               => ExcessiveDepthFatal

-----------------------------------------------------------------------------
(* C39: the remembered position of the searches *)

\* how many bytes of text the documents hold around ShrinkThreshold
MaxAround == 6

\* <a>, n bytes of text, one item, </a>
ShrinkDoc(n, item) ==
    [i \in 1..(3 + n) |-> IF i <= 3 THEN <<"<", "a", ">">>[i] ELSE "x"]
        \o item \o <<"<", "/", "a", ">">>

ShrinkItems ==
    {<<"<", "?", "p", "?", ">">>, <<"<", "!", "-", "-", "x", "-", "-", ">">>,
     <<"<", "!", "[", "C", "D", "A", "T", "A", "[", "x", "]", "]", ">">>}

ShrinkDocs ==
    {ShrinkDoc(n, item) : n \in (ShrinkThreshold - MaxAround)..(ShrinkThreshold + MaxAround),
                          item \in ShrinkItems}

ShrinkInit ==
    /\ doc \in ShrinkDocs
    /\ driver = "push"
    /\ \E recovery \in {0, 1} : ctxt = xmlCreatePushParserCtxt(recovery, 0)
    /\ fed = 0
    /\ ret = "0"
    /\ op = Created
    /\ finals = 0

\* the first call brings the start tag, the text and the first k bytes of
\* the item
ShrinkBulk ==
    /\ fed = 0
    /\ \E k \in 2..4 : Feed(Min({i \in 4..Len(doc) : doc[i] = "<"}) - 1 + k, FALSE)

\* the calls after it bring the rest in small chunks
ShrinkRest ==
    /\ fed > 0
    /\ \E n \in 1..MaxChunk, terminate \in BOOLEAN : Feed(n, terminate)

ShrinkNext == ShrinkBulk \/ ShrinkRest

ShrinkSpec == ShrinkInit /\ [][ShrinkNext]_vars

\* C39: the remembered position of the searches is zero right after the
\* consumed bytes are dropped from the buffer and right after a search has
\* found its sequence
C39_MemoZeroAfterDiscardAndFound == driver = "push" => ~ctxt.memoKept

\* the bytes were dropped while a position was remembered, and the search
\* made after it has found the end of the item
C39_DiscardedWithMemo ==
    /\ driver = "push" /\ ctxt.memoDropped
    /\ Len(ctxt.buf) < fed
    /\ \E k \in 1..Len(ctxt.events) :
           ctxt.events[k].kind \in {"processingInstruction", "comment", "cdataBlock"}

-----------------------------------------------------------------------------
(* C40: default attributes declared in the DTD.  xmlParseStartTag2 is      *)
(* applied to start tags of an element that has defaults, with and without *)
(* a binding of the prefix in scope and on the tag itself.                 *)

MaxDefaults == 2

DefaultPrefix == <<"p">>

DefaultURIs == {<<"u">>, <<"v">>}

\* the defaults an attribute-list declaration of the internal subset adds:
\* xmlns:p, xmlns and the attribute a
DefaultEntries ==
    {[attname |-> n[1], aprefix |-> n[2], value |-> u, external |-> NULL] :
        n \in {<<DefaultPrefix, str_xmlns>>, <<str_xmlns, NULL>>, <<<<"a">>, NULL>>},
        u \in DefaultURIs}

DefaultLists ==
    {l \in Strings(DefaultEntries, MaxDefaults) :
        /\ Len(l) > 0
        /\ \A i, j \in 1..Len(l) :
               i # j => <<l[i].attname, l[i].aprefix>> # <<l[j].attname, l[j].aprefix>>}

DefaultTags ==
    {<<"<">> \o AttElem \o att \o <<">">> :
        att \in {<<>>} \cup
                {<<" ">> \o n \o <<"=">> \o Quoted("'", u) :
                    n \in {str_xmlns \o <<":">> \o DefaultPrefix, <<"a">>},
                    u \in DefaultURIs}}

DefaultsInit ==
    /\ driver = "xmlParseStartTag2"
    /\ doc \in DefaultTags
    /\ \E l \in DefaultLists, options \in {{}, {"XML_PARSE_NSCLEAN"}},
          outer \in {<<>>} \cup {<<DefaultPrefix, u>> : u \in DefaultURIs} :
          ctxt = [xmlCtxtUseOptions(FnCtxt(doc, {}), options)
                     EXCEPT !.nsTab = outer,
                            !.attsDefault = <<[name |-> AttElem, prefix |-> NULL,
                                               defaults |-> l]>>]
    /\ fed = 0
    /\ ret = "0"
    /\ op = Created
    /\ finals = 0

ParseStartTag2 == Apply("xmlParseStartTag2", xmlParseStartTag2(ctxt), 0)

DefaultsNext == ParseStartTag2

DefaultsSpec == DefaultsInit /\ [][DefaultsNext]_vars

\* C40: a default xmlns:prefix of the element is pushed as a binding exactly
\* when the prefix is not declared on the tag and the URI of the default
\* differs from the binding of the prefix in scope, at every position of the
\* default in the list
C40_PrefixedDefaultPushedWhenNeeded ==
    \A e \in ctxt.nsDefaulted : e.pushed <=> (~e.declared /\ e.value # e.inscope)

=============================================================================
